---- MODULE Spec2Model ----
(***************************************************************************)
(* disaster-alerts: the dedup/watermark store (state.py) and the pipeline  *)
(* that reads and commits it (pipeline.py).                                *)
(*                                                                         *)
(* Representation of Python values:                                        *)
(*   - a str is a sequence of one-character strings; "" is <<>>;           *)
(*   - None is Null and a missing dict key is Absent (two sequences that   *)
(*     are no str of the model);                                           *)
(*   - a timestamp string is kept in parsed-syntax form (date fields, time *)
(*     fields, a fraction flag and the kind of UTC offset), so that two    *)
(*     different strings can denote the same instant;                      *)
(*   - a dict is a function over its keys.                                 *)
(***************************************************************************)
EXTENDS Integers, Sequences, FiniteSets, TLC

VARIABLES
    fs,          \* the files next to the state path: name -> content
    env_lru,     \* DISASTER_ALERTS_STATE_LRU as int() reads it
    store,       \* the State object held by the caller
    ret,         \* what the last call returned
    op,          \* the last call of the State API, its event, and the last batch committed
    hist,        \* ghost: per provider, every id committed to this store, most recent first
    phase,       \* where the caller of the State API is: "live", "saved", "reloaded"
    feed,        \* the events the caller draws its arguments from
    settings,    \* the Settings object handed to pipeline.run
    runs,        \* how many runs of pipeline.run were started
    pc,          \* where the current run is
    events,      \* run: the local `events`
    grouped,     \* run: the local `grouped`, a dict in insertion order: <<[key, evs], ...>>
    gi,          \* run: how many items of grouped the dispatch loop has taken
    groups_sent,     \* _dispatch_emails: groups_sent
    events_notified, \* _dispatch_emails: events_notified
    sent_events,     \* _dispatch_emails: sent_events
    result,      \* how the last run ended: what it returned or raised
    run,         \* ghost: what the current run fetched, sent and committed, and the files it started from
    ever,        \* ghost: the (provider, id) pairs committed by the runs so far
    procs,       \* the processes sharing the state path: each one's position in load/save, its State, its open file
    cli,         \* the invocation of cli.main: its flags, what email.send is bound to, its exit code
    http         \* the call of get_json: its retries, attempts and sleeps so far, the responses, what it returned

stateVars == <<store, ret, op, hist, phase, feed>>
pipeVars == <<settings, runs, pc, events, grouped, gi, groups_sent, events_notified,
              sent_events, result, run, ever>>
vars == <<fs, env_lru, stateVars, pipeVars, procs, cli, http>>

(***************************************************************************)
(* Bounds of the model                                                     *)
(***************************************************************************)
MaxLru == 3
MaxBatch == 2
MaxRuns == 3
MaxEvents == 3
MaxLoads == 2

(***************************************************************************)
(* Python values                                                           *)
(***************************************************************************)
Null == <<"<None>">>
Absent == <<"<absent>">>
NonStr == <<"<int>">>

\* dict.get(key, default): the value, or the default when the key is missing
get(v, default) == IF v = Absent THEN default ELSE v

\* str(x): the text of None is "None", a str is itself
str(v) == IF v = Null THEN <<"N", "o", "n", "e">> ELSE v

IsSpace(c) == c \in {" ", "\t", "\n"}

RECURSIVE lstrip(_)
lstrip(s) == IF s = <<>> THEN s
             ELSE IF IsSpace(Head(s)) THEN lstrip(Tail(s)) ELSE s

RECURSIVE rstrip(_)
rstrip(s) == IF s = <<>> THEN s
             ELSE IF IsSpace(s[Len(s)]) THEN rstrip(SubSeq(s, 1, Len(s) - 1)) ELSE s

\* str.strip()
strip(s) == rstrip(lstrip(s))

\* x in list
InList(x, l) == \E i \in DOMAIN l : l[i] = x

\* list.remove(x): drops the first occurrence only
RECURSIVE list_remove(_, _)
list_remove(l, x) == IF l = <<>> THEN l
                     ELSE IF Head(l) = x THEN Tail(l)
                     ELSE <<Head(l)>> \o list_remove(Tail(l), x)

\* del l[n:]
del_from(l, n) == IF n >= 0 THEN SubSeq(l, 1, IF n < Len(l) THEN n ELSE Len(l))
                  ELSE SubSeq(l, 1, IF Len(l) + n > 0 THEN Len(l) + n ELSE 0)

(***************************************************************************)
(* Timestamps                                                              *)
(***************************************************************************)
\* kind: "none" (None), "empty" (""), "text" (a str with no date in it),
\* "nonstr" (a JSON value that is no string), "iso" (date "T" time [.frac] zone)
\* zone: "" | "Z" | "+" (+hh:mm) | "-" (-hh:mm)
Ts(kind, d, t, frac, zone) == [kind |-> kind, d |-> d, t |-> t, frac |-> frac, zone |-> zone]
TsNone == Ts("none", <<>>, <<>>, FALSE, "")
TsEmpty == Ts("empty", <<>>, <<>>, FALSE, "")
TsText == Ts("text", <<>>, <<>>, FALSE, "")
TsNonStr == Ts("nonstr", <<>>, <<>>, FALSE, "")
Iso(d, t, frac, zone) == Ts("iso", d, t, frac, zone)

\* truth value of an `updated` value
Truthy(ts) == ts.kind \notin {"none", "empty"}

NoParse == <<>>

\* the (y, m, d, hh, mm, ss) tuple, or NoParse for None
_parse_iso8601(ts) ==
    IF ~Truthy(ts) \/ ts.kind = "nonstr" THEN NoParse
    ELSE IF ts.kind # "iso" THEN NoParse           \* no "-" and "T" in it
    \* "Z" and "+hh:mm" are cut off; "-hh:mm" stays in the time part, where
    \* only a fraction (cut at the first ".") removes it before split(":")
    ELSE IF ts.zone = "-" /\ ~ts.frac THEN NoParse \* four ":" fields: ValueError
    ELSE ts.d \o ts.t

\* Python's tuple order on two tuples of the same length
RECURSIVE TupleGT(_, _)
TupleGT(a, b) == IF a = <<>> \/ b = <<>> THEN FALSE
                 ELSE IF Head(a) # Head(b) THEN Head(a) > Head(b)
                 ELSE TupleGT(Tail(a), Tail(b))

_is_newer(a, b) ==
    LET pa == _parse_iso8601(a)
        pb == _parse_iso8601(b)
    IN  IF pa = NoParse THEN FALSE
        ELSE IF pb = NoParse THEN TRUE
        ELSE TupleGT(pa, pb)

(***************************************************************************)
(* Events                                                                  *)
(***************************************************************************)
USGS == <<"u", "s", "g", "s">>
NWS == <<"n", "w", "s">>
UNKNOWN == <<"u", "n", "k", "n", "o", "w", "n">>
DEFAULT == <<"d", "e", "f", "a", "u", "l", "t">>

\* a value of the properties dict: k is "absent" (no such key), "none" (None),
\* "num" (an int or float, v in tenths) or "other" (a str, a bool, ...)
PV(k, v) == [k |-> k, v |-> v]
PAbsent == PV("absent", 0)
PNone == PV("none", 0)
PNum(v) == PV("num", v)
POther == PV("other", 0)

NoProps == [mag |-> PAbsent, magnitude |-> PAbsent, depth_km |-> PAbsent, depth |-> PAbsent,
            wind_gust_mps |-> PAbsent, rainfall_mm_hr |-> PAbsent, event |-> Absent]

\* a GeoJSON geometry: type "none" stands for None; a Point keeps its
\* coordinates in point, a Polygon is polys[1], a MultiPolygon is polys
Geom(type, point, polys) == [type |-> type, point |-> point, polys |-> polys]
NoGeom == Geom("none", <<>>, <<>>)
Point(c) == Geom("Point", c, <<>>)
Polygon(rings) == Geom("Polygon", <<>>, <<rings>>)
MultiPolygon(polys) == Geom("MultiPolygon", <<>>, polys)

E0 == [isdict |-> TRUE, id |-> <<>>, provider |-> <<>>, updated |-> TsNone,
       routing_key |-> DEFAULT, title |-> <<>>, severity |-> Null,
       properties |-> NoProps, geometry |-> NoGeom]

Ev(id, provider, updated) == [E0 EXCEPT !.id = id, !.provider = provider, !.updated = updated]

\* provider = str(event.get("provider", "")).strip() or "unknown"
provider_of(e) ==
    LET p == strip(str(get(e.provider, <<>>)))
    IN  IF p = <<>> THEN UNKNOWN ELSE p

\* eid = str(event.get("id", "")).strip()
eid_of(e) == strip(str(get(e.id, <<>>)))

\* e.get("updated")
updated_of(e) == e.updated

(***************************************************************************)
(* _ProviderState and State (state.py)                                     *)
(***************************************************************************)
_ProviderState == [ids |-> <<>>, last_updated |-> TsNone]

EmptyMap == <<>>

\* State(path=path): no providers, lru_limit from the environment
NewState(lru) == [version |-> 1, providers |-> EmptyMap, lru_limit |-> lru]

\* _prov: get the provider's record, creating it in the mapping when missing.
\* The result is the mapping after the call.
_prov(providers, name) ==
    IF name \in DOMAIN providers THEN providers
    ELSE providers @@ (name :> _ProviderState)

\* add_id that evicts from the front (keeps the oldest ids)
add_id_evict_newest(ids, eid, lru_limit) ==
    IF ids # <<>> /\ ids[1] = eid THEN ids
    ELSE LET ins == <<eid>> \o list_remove(ids, eid)
         IN  IF Len(ins) > lru_limit
             THEN SubSeq(ins, Len(ins) - lru_limit + 1, Len(ins)) ELSE ins

\* add_id that does not remove the earlier occurrence of the id
add_id_keep_old(ids, eid, lru_limit) ==
    IF ids # <<>> /\ ids[1] = eid THEN ids
    ELSE LET ins == <<eid>> \o ids
         IN  IF Len(ins) > lru_limit THEN del_from(ins, lru_limit) ELSE ins

add_id(ids, eid, lru_limit) ==
    IF ids # <<>> /\ ids[1] = eid THEN ids
    ELSE LET ins == <<eid>> \o list_remove(ids, eid)
         IN  IF Len(ins) > lru_limit THEN del_from(ins, lru_limit) ELSE ins

\* consider_updated that takes any non-empty value, newer or not
consider_updated_always(ps, updated) ==
    IF Truthy(updated) THEN [ps EXCEPT !.last_updated = updated] ELSE ps

consider_updated(ps, updated) ==
    IF Truthy(updated) /\ _is_newer(updated, ps.last_updated)
    THEN [ps EXCEPT !.last_updated = updated]
    ELSE ps

\* is_new that looks the id up in every provider's list
is_new_any_provider(st, event) ==
    LET provider == provider_of(event)
        eid == eid_of(event)
    IN  IF eid = <<>> THEN [ret |-> TRUE, st |-> st]
        ELSE LET provs == _prov(st.providers, provider)
             IN  [ret |-> \A p \in DOMAIN provs : ~InList(eid, provs[p].ids),
                  st |-> [st EXCEPT !.providers = provs]]

\* is_new that lets the watermark suppress an event that is not newer than it
is_new_watermark_gated(st, event) ==
    LET provider == provider_of(event)
        eid == eid_of(event)
    IN  IF eid = <<>> THEN [ret |-> TRUE, st |-> st]
        ELSE LET provs == _prov(st.providers, provider)
             IN  [ret |-> /\ ~InList(eid, provs[provider].ids)
                          /\ \/ ~Truthy(provs[provider].last_updated)
                             \/ _is_newer(updated_of(event), provs[provider].last_updated),
                  st |-> [st EXCEPT !.providers = provs]]

\* is_new: the returned flag and the State after the call
is_new(st, event) ==
    LET provider == provider_of(event)
        eid == eid_of(event)
    IN  IF eid = <<>> THEN [ret |-> TRUE, st |-> st]
        ELSE LET provs == _prov(st.providers, provider)
             IN  [ret |-> ~InList(eid, provs[provider].ids),
                  st |-> [st EXCEPT !.providers = provs]]

\* the loop of update_with: providers and per_provider_max_updated after it
RECURSIVE update_loop(_, _, _, _)
update_loop(providers, pmax, evs, lru_limit) ==
    IF evs = <<>> THEN [providers |-> providers, pmax |-> pmax]
    ELSE LET e == Head(evs)
             provider == provider_of(e)
             eid == eid_of(e)
             updated == updated_of(e)
             provs == _prov(providers, provider)
             provs2 == IF eid # <<>>
                       THEN [provs EXCEPT ![provider].ids = add_id(@, eid, lru_limit)]
                       ELSE provs
             prev == IF provider \in DOMAIN pmax THEN pmax[provider] ELSE TsNone
             new == IF _is_newer(updated, prev) THEN updated ELSE prev
             pmax2 == [p \in DOMAIN pmax \cup {provider} |->
                          IF p = provider THEN new ELSE pmax[p]]
         IN  update_loop(provs2, pmax2, Tail(evs), lru_limit)

update_with(st, evs) ==
    LET r == update_loop(st.providers, EmptyMap, evs, st.lru_limit)
        provs == [p \in DOMAIN r.providers |->
                    IF p \in DOMAIN r.pmax /\ Truthy(r.pmax[p])
                    THEN consider_updated(r.providers[p], r.pmax[p])
                    ELSE r.providers[p]]
    IN  [st EXCEPT !.providers = provs]

\* to_dict: the JSON object save() writes
to_dict(st) == [version |-> st.version, has_lru |-> TRUE, lru_limit |-> st.lru_limit,
                providers |-> st.providers]

(***************************************************************************)
(* Files                                                                   *)
(***************************************************************************)
STATE_FILE == "state.json"
TMP_FILE == "state.json.tmp"
BAK_FILE == "state.json.bak"
FileNames == {STATE_FILE, TMP_FILE, BAK_FILE}

NoData == [version |-> 1, has_lru |-> FALSE, lru_limit |-> 0, providers |-> EmptyMap]
\* kind: "missing" | "json" (a JSON object, in data) | "corrupt" (text that is no such
\* object) | "truncated" | "dir" (a directory)
Missing == [kind |-> "missing", data |-> NoData]
Corrupt == [kind |-> "corrupt", data |-> NoData]
JsonFile(data) == [kind |-> "json", data |-> data]

\* save() that writes the temporary file and never moves it over the target
save_no_replace(files, st) ==
    [files EXCEPT ![TMP_FILE] = JsonFile(to_dict(st))]

\* a file cut short: what open(..., "w") leaves before the text is written (the empty
\* file), and what a write that was interrupted or overwritten in part leaves
Truncated == [kind |-> "truncated", data |-> NoData]

\* write_text that opens the target itself instead of the temporary file
save_open_in_place(files) ==
    [files EXCEPT ![STATE_FILE] = Truncated, ![TMP_FILE] = Truncated]

\* save(), first step: tmp.write_text opens the temporary file, which truncates it
save_open(files) ==
    [files EXCEPT ![TMP_FILE] = Truncated]

\* save(), second step: write_text writes the text into the file it opened
save_write(files, name, st) ==
    IF name \in DOMAIN files THEN [files EXCEPT ![name] = JsonFile(to_dict(st))] ELSE files

\* save(), last step: tmp.replace(self.path)
save_replace(files) ==
    [files EXCEPT ![STATE_FILE] = files[TMP_FILE], ![TMP_FILE] = Missing]

\* save(): write the temporary file, then replace the target by it
save(files, st) ==
    save_replace(save_write(save_open(files), TMP_FILE, st))

\* one provider record as load() reads it
load_provider(obj) ==
    [ids |-> SelectSeq(obj.ids, LAMBDA s : s # NonStr),
     last_updated |-> IF obj.last_updated.kind \in {"none", "nonstr"}
                      THEN TsNone ELSE obj.last_updated]

\* State.load that creates the file it did not find
load_creates_file(files, lru_env) ==
    [st |-> NewState(lru_env),
     files |-> IF files[STATE_FILE].kind = "missing"
               THEN [files EXCEPT ![STATE_FILE] = JsonFile(to_dict(NewState(lru_env)))]
               ELSE files]

\* State.load that leaves the file it could not read in place
load_no_rename(files, lru_env) ==
    LET f == files[STATE_FILE]
    IN  IF f.kind = "json"
        THEN [st |-> [version |-> f.data.version,
                      providers |-> [p \in DOMAIN f.data.providers |->
                                        load_provider(f.data.providers[p])],
                      lru_limit |-> IF f.data.has_lru THEN f.data.lru_limit ELSE lru_env],
              files |-> files]
        ELSE [st |-> NewState(lru_env), files |-> files]

\* State.load that takes the limit from the environment whatever the file says
load_env_wins(files, lru_env) ==
    LET f == files[STATE_FILE]
    IN  IF f.kind = "missing" THEN [st |-> NewState(lru_env), files |-> files]
        ELSE IF f.kind = "json"
        THEN [st |-> [version |-> f.data.version,
                      providers |-> [p \in DOMAIN f.data.providers |->
                                        load_provider(f.data.providers[p])],
                      lru_limit |-> lru_env],
              files |-> files]
        ELSE [st |-> NewState(lru_env),
              files |-> IF files[BAK_FILE].kind = "dir" THEN files
                        ELSE [files EXCEPT ![BAK_FILE] = f, ![STATE_FILE] = Missing]]

\* State.load: the State returned and the files after the call.  A file that is
\* not a JSON object of the expected shape is renamed to the .bak name; the rename
\* fails, and is ignored, when a directory has that name
load(files, lru_env) ==
    LET f == files[STATE_FILE]
    IN  IF f.kind = "missing" THEN [st |-> NewState(lru_env), files |-> files]
        ELSE IF f.kind = "json"
        THEN [st |-> [version |-> f.data.version,
                      providers |-> [p \in DOMAIN f.data.providers |->
                                        load_provider(f.data.providers[p])],
                      lru_limit |-> IF f.data.has_lru THEN f.data.lru_limit ELSE lru_env],
              files |-> files]
        ELSE [st |-> NewState(lru_env),
              files |-> IF files[BAK_FILE].kind = "dir" THEN files
                        ELSE [files EXCEPT ![BAK_FILE] = f, ![STATE_FILE] = Missing]]

\* the processes that share the state path, each before its first load.  pc is the
\* position in load() ... save(); st the State it holds; fd the name under which the
\* file it has open is found; overwritten: another process wrote into that file while
\* it was open; and five ghosts: found, the file its load met; prev, the file at the
\* state path when its save began; solo, no other process was at work since its
\* load; together, it and another process both loaded before either began to save;
\* round, the loads of all processes so far
NoProcs ==
    [p \in {1, 2} |->
        [pc |-> "idle", st |-> NewState(0), fd |-> "", overwritten |-> FALSE,
         found |-> Missing, prev |-> Missing, solo |-> TRUE, together |-> FALSE,
         round |-> 0]]

\* cli.main has not been called: email.send is the real send function.
\*   pc: "idle", "running" (pipeline.run was called), "exited"
\*   dry_run: the flag --dry-run; send: what email_mod.send is bound to
\*   code: the value main returned (-1: none yet); runs0: the runs started before
\*   ghosts: prev_dry, the invocation before this one was a dry run that
\*   returned; prev_sent, the events its no-op send was handed
NoCli ==
    [pc |-> "idle", dry_run |-> FALSE, send |-> "real", code |-> -1, runs0 |-> 0,
     prev_dry |-> FALSE, prev_sent |-> <<>>]

\* get_json has not been called.
\*   pc: "idle", "request" (about to call requests.get), "sleeping", "returned"
\*   retries: the argument; attempt: the local `attempt`; sleeps: the calls of
\*   time.sleep; responses: what requests.get gave, in order; ret: the value returned
NoCall ==
    [pc |-> "idle", retries |-> 0, attempt |-> 0, sleeps |-> 0, responses |-> <<>>,
     ret |-> "none"]

(***************************************************************************)
(* Threshold and geo filters (rules.py)                                    *)
(***************************************************************************)
UpperChars == <<"A", "B", "C", "D", "E", "F", "G", "H", "I", "J", "K", "L", "M",
                "N", "O", "P", "Q", "R", "S", "T", "U", "V", "W", "X", "Y", "Z">>
LowerChars == <<"a", "b", "c", "d", "e", "f", "g", "h", "i", "j", "k", "l", "m",
                "n", "o", "p", "q", "r", "s", "t", "u", "v", "w", "x", "y", "z">>

lower_char(c) == IF \E i \in DOMAIN UpperChars : UpperChars[i] = c
                 THEN LowerChars[CHOOSE i \in DOMAIN UpperChars : UpperChars[i] = c]
                 ELSE c

\* str.lower()
lower(s) == [i \in DOMAIN s |-> lower_char(s[i])]

IsStr(v) == v # Null /\ v # Absent /\ v # NonStr

\* pat in t (substring)
Contains(t, pat) ==
    \E i \in 0 .. (Len(t) - Len(pat)) : SubSeq(t, i + 1, i + Len(pat)) = pat

_is_number(pv) == pv.k = "num"

\* props.get(key): None when the key is missing
pget(pv) == IF pv.k = "absent" THEN PNone ELSE pv

\* props.get(key, default)
pget_or(pv, default) == IF pv.k = "absent" THEN default ELSE pv

\* the representative point (lon, lat) of a geometry, <<>> for None
\* the representative point taken from the second vertex of the outer ring
_as_point_from_geometry_second_vertex(geom) ==
    IF geom.type = "Point" /\ Len(geom.point) >= 2
        THEN SubSeq(geom.point, 1, 2)
    ELSE IF geom.type \in {"Polygon", "MultiPolygon"}
            /\ geom.polys # <<>> /\ geom.polys[1] # <<>> /\ Len(geom.polys[1][1]) >= 2
        THEN geom.polys[1][1][2]
    ELSE <<>>

_as_point_from_geometry(geom) ==
    IF geom.type = "Point" /\ Len(geom.point) >= 2
        THEN SubSeq(geom.point, 1, 2)
    ELSE IF geom.type \in {"Polygon", "MultiPolygon"}
            /\ geom.polys # <<>> /\ geom.polys[1] # <<>> /\ geom.polys[1][1] # <<>>
        THEN geom.polys[1][1][1]
    ELSE <<>>

\* one edge of the ray casting test, in exact arithmetic on integer coordinates:
\*   (y1 > y) != (y2 > y)  and  x < (x2 - x1) * (y - y1) / (y2 - y1 + 1e-15) + x1
\* The 1e-15 only matters when x lies exactly on the line of the edge; there
\* the quotient is pulled towards zero (y2 > y1) or away from it (y2 < y1).
edge_intersects(x, y, a, b) ==
    LET x1 == a[1]
        y1 == a[2]
        x2 == b[1]
        y2 == b[2]
        dy == y2 - y1
        n == (x2 - x1) * (y - y1)
        lhs == (x - x1) * dy
    IN  /\ (y1 > y) # (y2 > y)
        /\ IF lhs = n THEN n < 0
           ELSE IF dy > 0 THEN lhs < n ELSE lhs > n

\* the number of edges of the ring crossed by the ray from pt, edges i..n
RECURSIVE crossings(_, _, _)
crossings(pt, ring, i) ==
    IF i > Len(ring) THEN 0
    ELSE (IF edge_intersects(pt[1], pt[2], ring[i], ring[(i % Len(ring)) + 1]) THEN 1 ELSE 0)
         + crossings(pt, ring, i + 1)

_point_in_ring(pt, ring) ==
    IF Len(ring) < 3 THEN FALSE ELSE crossings(pt, ring, 1) % 2 = 1

\* the polygon test that takes the outer ring alone
_point_in_polygon_no_holes(pt, polygon_coords) ==
    IF polygon_coords = <<>> THEN FALSE
    ELSE _point_in_ring(pt, polygon_coords[1])

_point_in_polygon(pt, polygon_coords) ==
    IF polygon_coords = <<>> THEN FALSE
    ELSE /\ _point_in_ring(pt, polygon_coords[1])
         /\ \A h \in 2 .. Len(polygon_coords) : ~_point_in_ring(pt, polygon_coords[h])

_point_in_multipolygon(pt, multipoly_coords) ==
    \E k \in DOMAIN multipoly_coords : _point_in_polygon(pt, multipoly_coords[k])

_aoi_contains(aoi, pt) ==
    IF aoi.type = "Polygon" THEN _point_in_polygon(pt, aoi.polys[1])
    ELSE IF aoi.type = "MultiPolygon" THEN _point_in_multipolygon(pt, aoi.polys)
    ELSE FALSE

_as_earthquake_values(e) ==
    LET props == e.properties
        mag == pget_or(props.mag, pget(props.magnitude))
        depth0 == pget_or(props.depth_km, pget(props.depth))
        depth == IF depth0.k = "none" /\ e.geometry.type = "Point" /\ Len(e.geometry.point) >= 3
                 THEN PNum(e.geometry.point[3])
                 ELSE depth0
    IN  [magnitude |-> IF _is_number(mag) THEN mag ELSE PNone,
         depth_km |-> IF _is_number(depth) THEN depth ELSE PNone]

_as_weather_values(e) ==
    LET gust == pget(e.properties.wind_gust_mps)
        rain == pget(e.properties.rainfall_mm_hr)
    IN  [wind_gust_mps |-> IF _is_number(gust) THEN gust ELSE PNone,
         rainfall_mm_hr |-> IF _is_number(rain) THEN rain ELSE PNone]


_SEV_RANK == << <<"n", "o", "n", "e">>,
               <<"m", "i", "n", "o", "r">>,
               <<"m", "o", "d", "e", "r", "a", "t", "e">>,
               <<"s", "e", "v", "e", "r", "e">>,
               <<"e", "x", "t", "r", "e", "m", "e">> >>

_severity_rank(s) ==
    IF ~IsStr(s) THEN 0
    ELSE LET k == lower(strip(s))
         IN  IF \E i \in DOMAIN _SEV_RANK : _SEV_RANK[i] = k
             THEN (CHOOSE i \in DOMAIN _SEV_RANK : _SEV_RANK[i] = k) - 1
             ELSE 0

\* the gate with > in place of >=
_passes_global_severity_strict(e, thresholds) ==
    LET min_sev == thresholds.min_severity
    IN  IF min_sev = Null \/ min_sev = <<>> THEN TRUE
        ELSE _severity_rank(get(e.severity, Null)) > _severity_rank(min_sev)

\* thresholds: [min_severity, earthquake, weather]; a missing block has on = FALSE
_passes_global_severity(e, thresholds) ==
    LET min_sev == thresholds.min_severity
    IN  IF min_sev = Null \/ min_sev = <<>> THEN TRUE
        ELSE _severity_rank(get(e.severity, Null)) >= _severity_rank(min_sev)

\* the gate that also rejects a magnitude equal to min_magnitude
_passes_earthquake_thresholds_exclusive(e, thr) ==
    IF ~thr.on THEN TRUE
    ELSE LET vals == _as_earthquake_values(e)
             mag == vals.magnitude
             depth == vals.depth_km
         IN  IF mag.k = "num" /\ mag.v <= thr.min_magnitude THEN FALSE
             ELSE IF depth.k = "num" /\ depth.v > thr.max_depth_km THEN FALSE
             ELSE TRUE

_passes_earthquake_thresholds(e, thr) ==
    IF ~thr.on THEN TRUE
    ELSE LET vals == _as_earthquake_values(e)
             mag == vals.magnitude
             depth == vals.depth_km
         IN  IF mag.k = "num" /\ mag.v < thr.min_magnitude THEN FALSE
             ELSE IF depth.k = "num" /\ depth.v > thr.max_depth_km THEN FALSE
             ELSE TRUE

_weather_event_text(e) ==
    LET ev == e.properties.event
        title == get(e.title, Null)
        pick == IF IsStr(ev) /\ ev # <<>> THEN ev
                ELSE IF IsStr(title) /\ title # <<>> THEN title
                ELSE <<>>
    IN  strip(str(pick))

_matches_any(patterns, text) ==
    \E i \in DOMAIN patterns :
        patterns[i] # <<>> /\ Contains(lower(text), lower(patterns[i]))

\* the categorical filters in which a matching include pattern settles the matter
_passes_weather_categorical_include_wins(e, thr) ==
    LET evt == _weather_event_text(e)
    IN  IF thr.include_events # <<>>
            THEN _matches_any(thr.include_events, evt)
        ELSE IF thr.exclude_events # <<>> /\ _matches_any(thr.exclude_events, evt) THEN FALSE
        ELSE TRUE

\* 1) categorical filters
_passes_weather_categorical(e, thr) ==
    LET evt == _weather_event_text(e)
    IN  IF thr.include_events # <<>> /\ ~_matches_any(thr.include_events, evt) THEN FALSE
        ELSE IF thr.exclude_events # <<>> /\ _matches_any(thr.exclude_events, evt) THEN FALSE
        ELSE TRUE

\* the numeric filters that also reject an event without a numeric gust
_passes_weather_numeric_strict(e, thr) ==
    LET vals == _as_weather_values(e)
        gust == vals.wind_gust_mps
        rain == vals.rainfall_mm_hr
    IN  IF thr.wind_gust_mps.k = "num"
            /\ (gust.k # "num" \/ gust.v < thr.wind_gust_mps.v) THEN FALSE
        ELSE IF thr.rainfall_mm_hr.k = "num" /\ rain.k = "num"
                /\ rain.v < thr.rainfall_mm_hr.v THEN FALSE
        ELSE TRUE

\* 2) numeric filters
_passes_weather_numeric(e, thr) ==
    LET vals == _as_weather_values(e)
        gust == vals.wind_gust_mps
        rain == vals.rainfall_mm_hr
    IN  IF thr.wind_gust_mps.k = "num" /\ gust.k = "num"
            /\ gust.v < thr.wind_gust_mps.v THEN FALSE
        ELSE IF thr.rainfall_mm_hr.k = "num" /\ rain.k = "num"
                /\ rain.v < thr.rainfall_mm_hr.v THEN FALSE
        ELSE TRUE

_passes_weather_thresholds(e, thr) ==
    IF ~thr.on THEN TRUE
    ELSE IF ~_passes_weather_categorical(e, thr) THEN FALSE
    ELSE _passes_weather_numeric(e, thr)

\* _passes_thresholds that holds every provider to the earthquake thresholds
_passes_thresholds_any_provider(e, thresholds) ==
    _passes_earthquake_thresholds(e, thresholds.earthquake)

_passes_thresholds(e, thresholds) ==
    LET prov == lower(str(get(e.provider, <<>>)))
    IN  IF prov = USGS /\ ~_passes_earthquake_thresholds(e, thresholds.earthquake) THEN FALSE
        ELSE IF prov = NWS /\ ~_passes_weather_thresholds(e, thresholds.weather) THEN FALSE
        ELSE TRUE

\* the AOI gate that drops an event without a representative point
_in_aoi_needs_point(e, aoi) ==
    IF aoi.type = "none" THEN TRUE
    ELSE LET pt == _as_point_from_geometry(e.geometry)
         IN  IF pt = <<>> THEN FALSE ELSE _aoi_contains(aoi, pt)

_in_aoi(e, aoi) ==
    IF aoi.type = "none" THEN TRUE
    ELSE LET pt == _as_point_from_geometry(e.geometry)
         IN  IF pt = <<>> THEN TRUE ELSE _aoi_contains(aoi, pt)

passes_all(e, thresholds, aoi) ==
    /\ _passes_global_severity(e, thresholds)
    /\ _passes_thresholds(e, thresholds)
    /\ _in_aoi(e, aoi)

filter_events(evs, thresholds, aoi) ==
    SelectSeq(evs, LAMBDA e : passes_all(e, thresholds, aoi))

(***************************************************************************)
(* Routing and dispatch (pipeline.py)                                      *)
(***************************************************************************)
OPS == <<"o", "p", "s">>

\* force_group = cfg.force_group.strip() if cfg.force_group else None
force_group_of(cfg) ==
    IF cfg.force_group = Null \/ cfg.force_group = <<>> THEN Null
    ELSE strip(cfg.force_group)

\* forcing that applies to "default" too
Forced_even_default(cfg) ==
    LET fg == force_group_of(cfg)
    IN  fg # Null /\ fg # <<>>

\* force_group and force_group.lower() != "default"
Forced(cfg) ==
    LET fg == force_group_of(cfg)
    IN  fg # Null /\ fg # <<>> /\ lower(fg) # DEFAULT

\* the base key of an event
base_key(e, cfg) ==
    LET raw_key == get(e.routing_key, Null)
    IN  IF Forced(cfg) THEN force_group_of(cfg)
        ELSE IF IsStr(raw_key) /\ strip(raw_key) # <<>> THEN strip(raw_key)
        ELSE DEFAULT

\* a merge that follows the table twice
merged_key_two_hops(key, cfg) ==
    LET once == IF ~Forced(cfg) /\ key \in DOMAIN cfg.merge THEN cfg.merge[key] ELSE key
    IN  IF ~Forced(cfg) /\ once \in DOMAIN cfg.merge THEN cfg.merge[once] ELSE once

\* merge_map.get(key, key), when not forced
merged_key(key, cfg) ==
    IF ~Forced(cfg) /\ key \in DOMAIN cfg.merge THEN cfg.merge[key] ELSE key

\* an insert at the front of the group's list
group_prepend(groups, key, e) ==
    IF \E i \in DOMAIN groups : groups[i].key = key
    THEN [i \in DOMAIN groups |->
            IF groups[i].key = key THEN [groups[i] EXCEPT !.evs = <<e>> \o @]
            ELSE groups[i]]
    ELSE Append(groups, [key |-> key, evs |-> <<e>>])

\* groups[key] = [e]: the event replaces the group instead of joining it
group_assign(groups, key, e) ==
    IF \E i \in DOMAIN groups : groups[i].key = key
    THEN [i \in DOMAIN groups |->
            IF groups[i].key = key THEN [groups[i] EXCEPT !.evs = <<e>>]
            ELSE groups[i]]
    ELSE Append(groups, [key |-> key, evs |-> <<e>>])

\* groups[key].append(e) on a dict kept in insertion order
group_append(groups, key, e) ==
    IF \E i \in DOMAIN groups : groups[i].key = key
    THEN [i \in DOMAIN groups |->
            IF groups[i].key = key THEN [groups[i] EXCEPT !.evs = Append(@, e)]
            ELSE groups[i]]
    ELSE Append(groups, [key |-> key, evs |-> <<e>>])

\* the loop with the drop test made on the key after the merge
RECURSIVE group_loop_drop_after_merge(_, _, _)
group_loop_drop_after_merge(groups, evs, cfg) ==
    IF evs = <<>> THEN groups
    ELSE LET e == Head(evs)
             key == merged_key(base_key(e, cfg), cfg)
         IN  IF key \in cfg.drop_groups
             THEN group_loop_drop_after_merge(groups, Tail(evs), cfg)
             ELSE group_loop_drop_after_merge(group_append(groups, key, e), Tail(evs), cfg)

RECURSIVE group_loop(_, _, _)
group_loop(groups, evs, cfg) ==
    IF evs = <<>> THEN groups
    ELSE LET e == Head(evs)
             key == base_key(e, cfg)
         IN  IF key \in cfg.drop_groups THEN group_loop(groups, Tail(evs), cfg)
             ELSE group_loop(group_append(groups, merged_key(key, cfg), e), Tail(evs), cfg)

_group_by_routing_key(evs, cfg) == group_loop(<<>>, evs, cfg)

\* Recipients.get is getattr(self, key, default or []), and the lists were attached
\* with setattr: a key for which no list was attached and which names an attribute
\* of the class, such as its method get, yields that attribute, a true value that is
\* no list.  (No configuration of the model attaches a list under such a name.)
GET == <<"g", "e", "t">>
BoundMethod == <<"<bound method>">>

\* settings.recipients.get(key, [])
recipients_get(recipients, key) ==
    IF key \in DOMAIN recipients THEN recipients[key]
    ELSE IF key = GET THEN BoundMethod
    ELSE <<>>

_recipients_for_key(s, key) ==
    LET recips == recipients_get(s.recipients, key)
    IN  IF recips # <<>> THEN recips
        ELSE IF key # DEFAULT /\ s.routing.fallback_to_default
             THEN recipients_get(s.recipients, DEFAULT)
        ELSE <<>>

\* a dedup loop that also drops an event whose provider and id it has kept
\* earlier in the same batch
RECURSIVE only_new_loop_once_per_batch(_, _, _)
only_new_loop_once_per_batch(st, evs, kept) ==
    IF evs = <<>> THEN [st |-> st, events |-> kept]
    ELSE LET r == is_new(st, Head(evs))
             twin == \E i \in DOMAIN kept :
                        /\ eid_of(kept[i]) # <<>>
                        /\ eid_of(kept[i]) = eid_of(Head(evs))
                        /\ provider_of(kept[i]) = provider_of(Head(evs))
         IN  only_new_loop_once_per_batch(r.st, Tail(evs),
                 IF r.ret /\ ~twin THEN Append(kept, Head(evs)) ELSE kept)

\* _only_new: the events kept and the State after the is_new calls
RECURSIVE only_new_loop(_, _, _)
only_new_loop(st, evs, kept) ==
    IF evs = <<>> THEN [st |-> st, events |-> kept]
    ELSE LET r == is_new(st, Head(evs))
         IN  only_new_loop(r.st, Tail(evs), IF r.ret THEN Append(kept, Head(evs)) ELSE kept)

\* the dedup check that lets every event through
_only_new_keeps_all(evs, st) == [st |-> st, events |-> evs]

_only_new(evs, st) == only_new_loop(st, evs, <<>>)

\* _collect_events: non-dict items are skipped, the defaults are set
MissingRequired(e) == e.isdict /\ (e.id = Absent \/ e.provider = Absent)

normalise(e) ==
    [e EXCEPT !.routing_key = get(@, DEFAULT),
              !.updated = IF @.kind = "absent" THEN TsNone ELSE @,
              !.title = get(@, <<>>),
              !.severity = get(@, Null)]

_collect_events(fetched) ==
    LET dicts == SelectSeq(fetched, LAMBDA e : e.isdict)
    IN  [d \in DOMAIN dicts |-> normalise(dicts[d])]

\* the first item that makes _collect_events raise comes before the end of the loop
\* the check that looks for the key id alone
CollectRaises_id_only(fetched) ==
    \E i \in DOMAIN fetched : fetched[i].isdict /\ fetched[i].id = Absent

CollectRaises(fetched) == \E i \in DOMAIN fetched : MissingRequired(fetched[i])

\* the timestamps of the model
T0F == Iso(<<2024, 12, 31>>, <<23, 59, 59>>, TRUE, "-")  \* "2024-12-31T23:59:59.5-05:00"
T1Z == Iso(<<2025, 1, 1>>, <<0, 0, 0>>, FALSE, "Z")      \* "2025-01-01T00:00:00Z"
T1P == Iso(<<2025, 1, 1>>, <<0, 0, 0>>, FALSE, "+")      \* "2025-01-01T00:00:00+00:00"
T2Z == Iso(<<2025, 1, 1>>, <<0, 5, 0>>, FALSE, "Z")      \* "2025-01-01T00:05:00Z"
T3M == Iso(<<2025, 1, 2>>, <<0, 0, 0>>, FALSE, "-")      \* "2025-01-02T00:00:00-05:00"

(***************************************************************************)
(* Settings and feeds of the model                                         *)
(***************************************************************************)
NoEarthquake == [on |-> FALSE, min_magnitude |-> 0, max_depth_km |-> 0]
NoWeather == [on |-> FALSE, wind_gust_mps |-> PNone, rainfall_mm_hr |-> PNone,
              include_events |-> <<>>, exclude_events |-> <<>>]
\* Thresholds(): permissive defaults
NoThresholds == [min_severity |-> Null, earthquake |-> NoEarthquake, weather |-> NoWeather]
\* EarthquakeThresholds(): min_magnitude 4.5, max_depth_km 700.0 (in tenths)
DefaultEarthquake == [on |-> TRUE, min_magnitude |-> 45, max_depth_km |-> 7000]

NoRouting == [force_group |-> Null, fallback_to_default |-> TRUE,
              merge |-> EmptyMap, drop_groups |-> {}]

\* the settings of tests/test_pipeline.py: AppConfig declares no no_html field
DefaultSettings ==
    [no_html |-> "absent", email_configured |-> TRUE,
     recipients |-> (DEFAULT :> <<"alerts@example.com">>) @@ (OPS :> <<"ops@example.com">>),
     routing |-> NoRouting, thresholds |-> NoThresholds, aoi |-> NoGeom]

\* the same with the attribute app.no_html supplied
TestSettings == [DefaultSettings EXCEPT !.no_html = "true"]

\* no list for "ops" and no fallback: the group is skipped; the map stage runs
NoOpsSettings ==
    [TestSettings EXCEPT !.no_html = "false",
                         !.recipients = (DEFAULT :> <<"alerts@example.com">>),
                         !.routing.fallback_to_default = FALSE]

\* no credentials: require_email raises
NoEmailSettings == [TestSettings EXCEPT !.email_configured = FALSE]

SEVERE_KEY == <<"s", "e", "v", "e", "r", "e">>

\* thresholds and routing rules in use: "ops" is merged into "severe", which
\* falls back to the default list; "default" is dropped
RulesSettings ==
    [TestSettings EXCEPT
        !.recipients = (DEFAULT :> <<"alerts@example.com">>),
        !.routing = [force_group |-> <<" ">>, fallback_to_default |-> TRUE,
                     merge |-> (OPS :> SEVERE_KEY), drop_groups |-> {DEFAULT}],
        !.thresholds = [min_severity |-> <<"M", "i", "n", "o", "r">>,
                        earthquake |-> DefaultEarthquake, weather |-> NoWeather]]

\* a deployment: the settings and DISASTER_ALERTS_STATE_LRU
\* a state file written before lru_limit was persisted: usgs holds the id "a"
LegacyFile ==
    JsonFile([NoData EXCEPT !.providers =
                (USGS :> [ids |-> << <<"a">> >>, last_updated |-> T1Z])])

\* a deployment: the settings, DISASTER_ALERTS_STATE_LRU and the state file
\* the first run finds
Deployments ==
    { [settings |-> DefaultSettings, lru |-> MaxLru, file |-> Missing],
      [settings |-> TestSettings, lru |-> MaxLru, file |-> Missing],
      [settings |-> TestSettings, lru |-> 1, file |-> Missing],
      [settings |-> TestSettings, lru |-> 0, file |-> Missing],
      [settings |-> TestSettings, lru |-> MaxLru, file |-> LegacyFile],
      [settings |-> NoOpsSettings, lru |-> MaxLru, file |-> Missing],
      [settings |-> NoEmailSettings, lru |-> MaxLru, file |-> Missing],
      [settings |-> RulesSettings, lru |-> MaxLru, file |-> Missing],
      [settings |-> RulesSettings, lru |-> MaxLru, file |-> Corrupt] }

PEv(id, provider, updated, key, severity) ==
    [E0 EXCEPT !.id = id, !.provider = provider, !.updated = updated,
               !.routing_key = key, !.severity = severity]


\* after usgs-001, nws-xyz and usgs-002 of tests/test_pipeline.py, with short
\* ids; the third carries no routing_key and the severity of the second has a
\* leading blank
Usgs001 == [PEv(<<"a">>, USGS, T1Z, DEFAULT, <<"M", "o", "d", "e", "r", "a", "t", "e">>)
               EXCEPT !.properties.mag = PNum(46), !.properties.depth_km = PNum(80),
                      !.geometry = Point(<<-120, 35, 8>>)]
NwsXyz == [PEv(<<"x">>, NWS, T2Z, OPS, <<" ", "S", "e", "v", "e", "r", "e">>)
              EXCEPT !.properties.event = <<"S", "t", "o", "r", "m">>]
Usgs002 == [PEv(<<"b">>, USGS, T2Z, Absent, <<"L", "i", "g", "h", "t">>)
               EXCEPT !.properties.mag = PNum(38), !.properties.depth_km = PNum(50),
                      !.geometry = Point(<<-121, 36, 5>>)]
\* usgs-001 once more in the same feed, under another routing key
Usgs001Ops == [Usgs001 EXCEPT !.id = <<"a", " ">>, !.routing_key = <<" ">> \o OPS]
\* an event with no usable id
NoIdEvent == PEv(<<>>, USGS, TsNone, DEFAULT, <<" ", "S", "e", "v", "e", "r", "e">>)
\* a dict without the key "id", and an item that is no dict
NoKeyItem == [E0 EXCEPT !.id = Absent, !.provider = NWS]
NonDictItem == [E0 EXCEPT !.isdict = FALSE]
NoProviderItem == [Usgs002 EXCEPT !.provider = Absent]

\* what fetch_from_enabled returns in a run
Fetches ==
    { <<>>,
      <<Usgs001, NwsXyz>>,
      <<Usgs001, Usgs002>>,
      <<Usgs001, Usgs001Ops>>,
      <<NwsXyz, NoIdEvent>>,
      <<NonDictItem, Usgs002>>,
      <<NonDictItem, NoKeyItem>>,
      <<Usgs001, NoKeyItem>>,
      <<NoProviderItem, NwsXyz>> }

(***************************************************************************)
(* pipeline.run                                                            *)
(***************************************************************************)
\* ghost of the State API: the last call
NoOp == [name |-> "load", batch |-> <<>>, event |-> E0]

NoResult == [kind |-> "none", value |-> 0, exc |-> "", at |-> ""]
Returned(n) == [kind |-> "return", value |-> n, exc |-> "", at |-> ""]
Raised(exc, at) == [kind |-> "raise", value |-> 0, exc |-> exc, at |-> at]

\* ghost of a run: the feed, the files and the committed pairs it started from,
\* the groups it sent and skipped, the argument of update_with, and whether
\* this run or an earlier one skipped a group or failed in dispatch
\* trace: the stages entered and the calls of load, send, update_with and
\* save, in order; loaded and fs1: the State and the files State.load left
NewRun(fetched, files, ever0, troubled) ==
    [fetched |-> fetched, fs0 |-> files, ever0 |-> ever0, troubled |-> troubled,
     map |-> "none", sends |-> <<>>, skipped |-> <<>>,
     committed |-> <<>>, updates |-> 0, saves |-> 0, loads |-> 0,
     trace |-> <<>>, loaded |-> NoData, fs1 |-> files]

\* ghost: the calls a commit adds to the trace
CommitCalls(c) == IF c.calls = 1 THEN <<"update_with", "save">> ELSE <<>>

\* ghost: the (provider, id) pairs a state file holds
KeysIn(f) ==
    IF f.kind # "json" THEN {}
    ELSE UNION {{<<p, f.data.providers[p].ids[i]>> : i \in DOMAIN f.data.providers[p].ids} :
                   p \in DOMAIN f.data.providers}

\* the accumulators of _dispatch_emails
Acc(n, m, sent) == [groups_sent |-> n, events_notified |-> m, sent_events |-> sent]

\* `continue`: a group without events or without recipients leaves them alone
skip_group_commits(acc, evs) ==
    [acc EXCEPT !.sent_events = @ \o evs]

skip_group(acc, evs) == acc

\* accumulators that count one event for a group, whatever its size
send_group_counts_one(acc, evs) ==
    Acc(acc.groups_sent + 1, acc.events_notified + 1, acc.sent_events \o evs)

\* after send(...) returned
send_group(acc, evs) ==
    Acc(acc.groups_sent + 1, acc.events_notified + Len(evs), acc.sent_events \o evs)

\* `if sent_events: state.update_with(sent_events); state.save()`
commit(st, files, sent) ==
    IF sent # <<>>
    THEN LET st2 == update_with(st, sent)
         IN  [st |-> st2, files |-> save(files, st2), calls |-> 1]
    ELSE [st |-> st, files |-> files, calls |-> 0]

\* an exception of _dispatch_emails leaves run() at once: the commit is not reached
dispatch_raises_commits(st, files, sent) == commit(st, files, sent)

dispatch_raises(st, files, sent) == [st |-> st, files |-> files, calls |-> 0]

\* no run in progress
PipeIdle(s, files) ==
    /\ settings = s
    /\ runs = 0
    /\ pc = "idle"
    /\ events = <<>>
    /\ grouped = <<>>
    /\ gi = 0
    /\ groups_sent = 0
    /\ events_notified = 0
    /\ sent_events = <<>>
    /\ result = NoResult
    /\ run = NewRun(<<>>, files, KeysIn(files[STATE_FILE]), FALSE)
    /\ ever = KeysIn(files[STATE_FILE])

Init ==
    /\ procs = NoProcs
    /\ cli = NoCli
    /\ http = NoCall
    /\ \E d \in Deployments :
          /\ fs = [n \in FileNames |-> IF n = STATE_FILE THEN d.file ELSE Missing]
          /\ env_lru = d.lru
          /\ PipeIdle(d.settings, fs)
    /\ store = NewState(env_lru)
    /\ ret = FALSE
    /\ op = NoOp
    /\ hist = EmptyMap
    /\ phase = "live"
    /\ feed = {}

\* the end of a run
Finish(r) ==
    /\ pc' = "done"
    /\ result' = r

\* 1) fetch: a new run starts; _collect_events, and `if not events: return 0`
Fetch(fetched) ==
    /\ pc \in {"idle", "done"}
    /\ runs < MaxRuns
    /\ runs' = runs + 1
    /\ run' = [NewRun(fetched, fs, ever, run.troubled) EXCEPT !.trace = <<"fetch">>]
    /\ grouped' = <<>>
    /\ gi' = 0
    /\ groups_sent' = 0
    /\ events_notified' = 0
    /\ sent_events' = <<>>
    /\ IF CollectRaises(fetched)
       THEN events' = <<>> /\ Finish(Raised("RuntimeError", "fetch"))
       ELSE /\ events' = _collect_events(fetched)
            /\ IF events' = <<>> THEN Finish(Returned(0))
               ELSE pc' = "fetched" /\ result' = NoResult
    /\ UNCHANGED <<fs, env_lru, stateVars, settings, ever, procs, cli, http>>

\* 2) filter, and `if not events: return 0`
Filter ==
    /\ pc = "fetched"
    /\ run' = [run EXCEPT !.trace = Append(@, "filter")]
    /\ events' = filter_events(events, settings.thresholds, settings.aoi)
    /\ IF events' = <<>> THEN Finish(Returned(0))
       ELSE pc' = "filtered" /\ UNCHANGED result
    /\ UNCHANGED <<fs, env_lru, stateVars, settings, runs, grouped, gi, groups_sent,
                   events_notified, sent_events, ever, procs, cli, http>>

\* 3) the map stage: `settings.app.no_html` is read outside the try; the map
\* generation itself may fail, which is logged and ignored
MapStage ==
    /\ pc = "filtered"
    /\ IF settings.no_html = "absent"
       THEN /\ Finish(Raised("AttributeError", "map"))
            /\ run' = [run EXCEPT !.trace = Append(@, "map")]
       ELSE IF settings.no_html = "true"
       THEN /\ pc' = "mapped"
            /\ run' = [run EXCEPT !.map = "skipped", !.trace = Append(@, "map")]
            /\ UNCHANGED result
       ELSE /\ pc' = "mapped"
            /\ \E outcome \in {"generated", "failed"} :
                  run' = [run EXCEPT !.map = outcome, !.trace = Append(@, "map")]
            /\ UNCHANGED result
    /\ UNCHANGED <<fs, env_lru, stateVars, settings, runs, events, grouped, gi, groups_sent,
                   events_notified, sent_events, ever, procs, cli, http>>

\* 4) dedup: State.load, _only_new, and `if not events: return 0`
Dedup ==
    /\ pc = "mapped"
    /\ LET l == load(fs, env_lru)
           r == _only_new(events, l.st)
       IN  /\ fs' = l.files
           /\ store' = r.st
           /\ events' = r.events
           /\ run' = [run EXCEPT !.loads = @ + 1, !.loaded = to_dict(l.st),
                                 !.fs1 = l.files,
                                 !.trace = @ \o <<"load", "dedup">>]
    /\ IF events' = <<>> THEN Finish(Returned(0))
       ELSE pc' = "deduped" /\ UNCHANGED result
    /\ UNCHANGED <<env_lru, ret, op, hist, phase, feed, settings, runs, grouped, gi,
                   groups_sent, events_notified, sent_events, ever, procs, cli, http>>

\* 5) route, and `if not grouped: return 0`
Route ==
    /\ pc = "deduped"
    /\ run' = [run EXCEPT !.trace = Append(@, "route")]
    /\ grouped' = _group_by_routing_key(events, settings.routing)
    /\ IF grouped' = <<>> THEN Finish(Returned(0))
       ELSE pc' = "routed" /\ UNCHANGED result
    /\ UNCHANGED <<fs, env_lru, stateVars, settings, runs, events, gi, groups_sent,
                   events_notified, sent_events, ever, procs, cli, http>>

\* 6) _dispatch_emails begins: settings.require_email()
DispatchStart ==
    /\ pc = "routed"
    /\ IF settings.email_configured
       THEN /\ pc' = "dispatch"
            /\ run' = [run EXCEPT !.trace = Append(@, "dispatch")]
            /\ UNCHANGED <<result, store, fs>>
       ELSE LET c == dispatch_raises(store, fs, sent_events)
            IN  /\ Finish(Raised("RuntimeError", "dispatch"))
                /\ store' = c.st
                /\ fs' = c.files
                /\ run' = [run EXCEPT !.troubled = TRUE, !.updates = @ + c.calls,
                                      !.saves = @ + c.calls,
                                      !.trace = @ \o <<"dispatch">> \o CommitCalls(c)]
    /\ UNCHANGED <<env_lru, ret, op, hist, phase, feed, settings, runs, events, grouped, gi,
                   groups_sent, events_notified, sent_events, ever, procs, cli, http>>

\* one turn of the loop over grouped.items(): the group is skipped for lack of
\* recipients, or its message is built and sent; build_message or send may raise,
\* and send does raise (TypeError in ", ".join(recipients)) when handed a method;
\* the no-op send of a dry run does not raise otherwise
DispatchGroup ==
    /\ pc = "dispatch"
    /\ gi < Len(grouped)
    /\ LET g == grouped[gi + 1]
           recipients == _recipients_for_key(settings, g.key)
           acc == Acc(groups_sent, events_notified, sent_events)
       IN  IF g.evs = <<>> \/ recipients = <<>>
           THEN LET a == skip_group(acc, g.evs)
                IN  /\ gi' = gi + 1
                    /\ groups_sent' = a.groups_sent
                    /\ events_notified' = a.events_notified
                    /\ sent_events' = a.sent_events
                    /\ run' = [run EXCEPT !.skipped = Append(@, g), !.troubled = TRUE]
                    /\ UNCHANGED <<pc, result, store, fs>>
           ELSE \E delivered \in (IF recipients = BoundMethod THEN {FALSE}
                                  ELSE IF cli.send = "noop" THEN {TRUE}
                                  ELSE BOOLEAN) :
                  IF delivered
                  THEN LET a == send_group(acc, g.evs)
                       IN  /\ gi' = gi + 1
                           /\ groups_sent' = a.groups_sent
                           /\ events_notified' = a.events_notified
                           /\ sent_events' = a.sent_events
                           /\ run' = [run EXCEPT !.sends =
                                        Append(@, [key |-> g.key, to |-> recipients,
                                                   evs |-> g.evs]),
                                                 !.trace = Append(@, "send")]
                           /\ UNCHANGED <<pc, result, store, fs>>
                  ELSE LET c == dispatch_raises(store, fs, sent_events)
                       IN  /\ Finish(Raised(IF recipients = BoundMethod THEN "TypeError"
                                             ELSE "SendError", "dispatch"))
                           /\ store' = c.st
                           /\ fs' = c.files
                           /\ run' = [run EXCEPT !.troubled = TRUE, !.updates = @ + c.calls,
                                                 !.saves = @ + c.calls,
                                                 !.trace = @ \o <<"send">> \o CommitCalls(c)]
                           /\ UNCHANGED <<gi, groups_sent, events_notified, sent_events>>
    /\ UNCHANGED <<env_lru, ret, op, hist, phase, feed, settings, runs, events, grouped, ever, procs, cli, http>>

\* ghost: the (provider, id) pairs update_with records for a batch
RECURSIVE KeysOf(_)
KeysOf(evs) ==
    IF evs = <<>> THEN {}
    ELSE KeysOf(Tail(evs))
         \cup (IF eid_of(Head(evs)) = <<>> THEN {}
               ELSE {<<provider_of(Head(evs)), eid_of(Head(evs))>>})

\* after the loop: update_with and save when something was sent, and the return
Commit ==
    /\ pc = "dispatch"
    /\ gi = Len(grouped)
    /\ LET c == commit(store, fs, sent_events)
       IN  /\ store' = c.st
           /\ fs' = c.files
           /\ run' = [run EXCEPT !.committed = IF c.calls = 1 THEN sent_events ELSE @,
                                 !.updates = @ + c.calls, !.saves = @ + c.calls,
                                 !.trace = @ \o <<"commit">> \o CommitCalls(c)]
           /\ ever' = IF c.calls = 1 THEN ever \cup KeysOf(sent_events) ELSE ever
    /\ Finish(Returned(events_notified))
    /\ UNCHANGED <<env_lru, ret, op, hist, phase, feed, settings, runs, events, grouped, gi,
                   groups_sent, events_notified, sent_events, procs, cli, http>>

Next ==
    \/ \E f \in Fetches : Fetch(f)
    \/ Filter
    \/ MapStage
    \/ Dedup
    \/ Route
    \/ DispatchStart
    \/ DispatchGroup
    \/ Commit

Spec == Init /\ [][Next]_vars

(***************************************************************************)
(* cli.main around pipeline.run: CliSpec                                   *)
(***************************************************************************)
\* what Settings.load builds (AppConfig has no no_html field), with and
\* without credentials in the environment, and the settings of the runs
\* above, where the attribute app.no_html has been supplied
CliDeployments ==
    { DefaultSettings,
      [DefaultSettings EXCEPT !.email_configured = FALSE],
      TestSettings,
      NoEmailSettings,
      NoOpsSettings }

\* main up to the call of pipeline.run: --version, then Settings.load (a failure
\* returns 1), then --print-settings, then the patch of email.send for --dry-run
CliMain(version, loaded, print_settings, dry_run) ==
    /\ cli.pc \in {"idle", "exited"}
    /\ pc \in {"idle", "done"}
    /\ runs < MaxRuns
    /\ cli' = IF version THEN [cli EXCEPT !.pc = "exited", !.code = 0, !.dry_run = FALSE]
              ELSE IF ~loaded THEN [cli EXCEPT !.pc = "exited", !.code = 1, !.dry_run = FALSE]
              ELSE IF print_settings
                  THEN [cli EXCEPT !.pc = "exited", !.code = 0, !.dry_run = FALSE]
              ELSE [cli EXCEPT !.pc = "running", !.code = -1, !.dry_run = dry_run,
                               !.send = IF dry_run THEN "noop" ELSE "real",
                               !.runs0 = runs]
    /\ UNCHANGED <<fs, env_lru, stateVars, pipeVars, procs, http>>

\* count = pipeline.run(settings): the run starts
CliRun(fetched) ==
    /\ cli.pc = "running"
    /\ runs = cli.runs0
    /\ Fetch(fetched)

\* pipeline.run has returned or raised: `except Exception: return 2`, else
\* `return 0`; the dry-run branch puts the real send back in both cases
CliExit ==
    /\ cli.pc = "running"
    /\ runs = cli.runs0 + 1
    /\ pc = "done"
    /\ LET returned == result.kind # "raise"
       IN  cli' = [cli EXCEPT !.pc = "exited",
                              !.code = IF returned THEN 0 ELSE 2,
                              !.send = "real",
                              !.prev_dry = cli.dry_run /\ returned,
                              !.prev_sent = IF cli.dry_run /\ returned THEN sent_events
                                            ELSE <<>>]
    /\ UNCHANGED <<fs, env_lru, stateVars, pipeVars, procs, http>>

CliInit ==
    /\ procs = NoProcs
    /\ cli = NoCli
    /\ http = NoCall
    /\ fs = [n \in FileNames |-> Missing]
    /\ env_lru = MaxLru
    /\ \E s \in CliDeployments : PipeIdle(s, fs)
    /\ store = NewState(env_lru)
    /\ ret = FALSE
    /\ op = NoOp
    /\ hist = EmptyMap
    /\ phase = "live"
    /\ feed = {}

CliNext ==
    \/ \E version, loaded, print_settings, dry_run \in BOOLEAN :
          CliMain(version, loaded, print_settings, dry_run)
    \/ \E f \in Fetches : CliRun(f)
    \/ Filter
    \/ MapStage
    \/ Dedup
    \/ Route
    \/ DispatchStart
    \/ DispatchGroup
    \/ Commit
    \/ CliExit

CliSpec == CliInit /\ [][CliNext]_vars

(***************************************************************************)
(* providers.common.get_json: HttpSpec                                     *)
(***************************************************************************)
MaxRetries == 2

\* what requests.get gives: a response with a status and a body (a JSON
\* document, or "bad" for a body that is not JSON), or a RequestException
\* (status 0)
Responses ==
    [status : {200, 299}, body : {"A", "bad"}]
        \cup [status : {0, 199, 300, 304, 404, 500}, body : {""}]

\* `if attempt > retries: break`, with the attempt after one more failure
exhausted_late(attempt, retries) == attempt > retries + 1

\* `if attempt > retries: break`
exhausted(attempt, retries) == attempt > retries

\* get_json(url, retries=retries): the headers are built, the loop begins
GetJson(retries) ==
    /\ http.pc \in {"idle", "returned"}
    /\ http' = [NoCall EXCEPT !.pc = "request", !.retries = retries]
    /\ UNCHANGED <<fs, env_lru, stateVars, pipeVars, procs, cli>>

\* one turn of the loop up to the sleep: the request, and what its outcome
\* leads to
Attempt(resp) ==
    /\ http.pc = "request"
    /\ LET attempt == http.attempt + 1
           h == [http EXCEPT !.attempt = attempt, !.responses = Append(@, resp)]
       IN  http' =
             IF resp.status = 304
                 THEN [h EXCEPT !.pc = "returned", !.ret = "{}"]
             ELSE IF resp.status # 0 /\ 200 <= resp.status /\ resp.status < 300
                 THEN [h EXCEPT !.pc = "returned",
                                !.ret = IF resp.body = "bad" THEN "{}" ELSE resp.body]
             ELSE IF exhausted(attempt, http.retries)
                 THEN [h EXCEPT !.pc = "returned", !.ret = "{}"]
             ELSE [h EXCEPT !.pc = "sleeping"]
    /\ UNCHANGED <<fs, env_lru, stateVars, pipeVars, procs, cli>>

\* time.sleep(backoff ** attempt)
Sleep ==
    /\ http.pc = "sleeping"
    /\ http' = [http EXCEPT !.pc = "request", !.sleeps = @ + 1]
    /\ UNCHANGED <<fs, env_lru, stateVars, pipeVars, procs, cli>>

HttpInit ==
    /\ procs = NoProcs
    /\ cli = NoCli
    /\ http = NoCall
    /\ fs = [n \in FileNames |-> Missing]
    /\ env_lru = MaxLru
    /\ PipeIdle(TestSettings, fs)
    /\ store = NewState(env_lru)
    /\ ret = FALSE
    /\ op = NoOp
    /\ hist = EmptyMap
    /\ phase = "live"
    /\ feed = {}

HttpNext ==
    \/ \E retries \in 0 .. MaxRetries : GetJson(retries)
    \/ \E resp \in Responses : Attempt(resp)
    \/ Sleep

\* requests.get returns or raises within its timeout, and time.sleep returns
HttpSpec ==
    /\ HttpInit
    /\ [][HttpNext]_vars
    /\ WF_vars(\E resp \in Responses : Attempt(resp))
    /\ WF_vars(Sleep)

(***************************************************************************)
(* _group_by_routing_key on its own: RoutingSpec                           *)
(***************************************************************************)
RECURSIVE SeqsUpTo(_, _)
SeqsUpTo(S, n) == IF n = 0 THEN {<<>>}
                  ELSE LET shorter == SeqsUpTo(S, n - 1)
                       IN  shorter \cup {Append(q, x) : q \in shorter, x \in S}

\* the inputs: events told apart by their id, with routing keys that are
\* plain, padded, "default", blank, None and a number
RoutingEvents ==
    LET REv(id, key) == [E0 EXCEPT !.id = <<id>>, !.provider = USGS, !.routing_key = key]
    IN  { REv("1", <<"a">>), REv("2", <<" ", "a", " ">>), REv("3", <<"b">>),
          REv("4", <<"c">>), REv("5", DEFAULT), REv("6", <<" ">>), REv("7", Null),
          REv("8", NonStr) }

\* the routing rules: force_group absent, empty, blank, "default" in other
\* letter cases, or a name; merge tables with a chain a -> b -> c; drop lists
RoutingConfigs ==
    LET Routing(force, merge, drop) ==
            [force_group |-> force, fallback_to_default |-> TRUE,
             merge |-> merge, drop_groups |-> drop]
        a == <<"a">>
        b == <<"b">>
        c == <<"c">>
        chain == (a :> b) @@ (b :> c)
    IN  { NoRouting,
          Routing(Null, chain, {}),
          Routing(Null, chain, {b}),
          Routing(Null, EmptyMap, {a}),
          Routing(Null, (a :> DEFAULT), {DEFAULT}),
          Routing(Null, (DEFAULT :> a), {c}),
          Routing(<<>>, chain, {a}),
          Routing(<<" ">>, chain, {DEFAULT}),
          Routing(<<"D", "e", "f", "a", "u", "l", "t">>, chain, {}),
          Routing(<<" ", "d", "e", "f", "a", "u", "l", "T", " ">>, EmptyMap, {b}),
          Routing(OPS, EmptyMap, {}),
          Routing(<<" ">> \o OPS \o <<" ">>, (OPS :> b), {a}),
          Routing(OPS, chain, {OPS}),
          Routing(a, chain, {b}) }

RoutingInit ==
    /\ procs = NoProcs
    /\ cli = NoCli
    /\ http = NoCall
    /\ fs = [n \in FileNames |-> Missing]
    /\ env_lru = MaxLru
    /\ store = NewState(env_lru)
    /\ ret = FALSE
    /\ op = NoOp
    /\ hist = EmptyMap
    /\ phase = "live"
    /\ feed = {}
    /\ \E cfg \in RoutingConfigs : settings = [TestSettings EXCEPT !.routing = cfg]
    /\ runs = 1
    /\ pc = "deduped"
    /\ events \in SeqsUpTo(RoutingEvents, MaxEvents) \ {<<>>}
    /\ grouped = <<>>
    /\ gi = 0
    /\ groups_sent = 0
    /\ events_notified = 0
    /\ sent_events = <<>>
    /\ result = NoResult
    /\ run = NewRun(events, fs, {}, FALSE)
    /\ ever = {}

RoutingSpec == RoutingInit /\ [][Route]_vars

(***************************************************************************)
(* _dispatch_emails on its own: DispatchSpec                               *)
(*   the groups are any dict of up to MaxEvents keys, empty groups and a   *)
(*   group under the key "get" included; the recipients are any of five    *)
(*   configurations, with and without fallback and credentials.            *)
(***************************************************************************)
DispatchInit ==
    /\ procs = NoProcs
    /\ cli = NoCli
    /\ http = NoCall
    /\ fs = [n \in FileNames |-> Missing]
    /\ env_lru = MaxLru
    /\ store = NewState(env_lru)
    /\ ret = FALSE
    /\ op = NoOp
    /\ hist = EmptyMap
    /\ phase = "live"
    /\ feed = {}
    /\ \E rc \in { EmptyMap,
                    (DEFAULT :> <<"alerts@example.com">>),
                    (OPS :> <<"ops@example.com">>),
                    (DEFAULT :> <<"alerts@example.com">>) @@ (OPS :> <<"ops@example.com">>),
                    (DEFAULT :> <<"alerts@example.com">>) @@ (OPS :> <<>>) },
          fb \in BOOLEAN, em \in BOOLEAN :
          settings = [TestSettings EXCEPT !.recipients = rc,
                                          !.routing.fallback_to_default = fb,
                                          !.email_configured = em]
    /\ runs = 1
    /\ pc = "routed"
    /\ events = <<>>
    /\ LET groups == {[key |-> k, evs |-> v] :
                         k \in {DEFAULT, OPS, GET},
                         v \in {<<>>, <<Usgs001>>, <<NwsXyz, Usgs002>>}}
       IN  /\ grouped \in SeqsUpTo(groups, MaxEvents) \ {<<>>}
           /\ \A i, j \in DOMAIN grouped : grouped[i].key = grouped[j].key => i = j
    /\ gi = 0
    /\ groups_sent = 0
    /\ events_notified = 0
    /\ sent_events = <<>>
    /\ result = NoResult
    /\ run = NewRun(<<>>, fs, {}, FALSE)
    /\ ever = {}

DispatchSpec == DispatchInit /\ [][DispatchStart \/ DispatchGroup \/ Commit]_vars

(***************************************************************************)
(* filter_events on its own: RulesSpec                                     *)
(*   Init draws the events, the thresholds and the AOI; the one action is  *)
(*   the filter stage.  Magnitudes, depths, gusts and rain rates are in    *)
(*   tenths, the third coordinate of a Point included; longitudes and      *)
(*   latitudes are whole degrees.                                          *)
(***************************************************************************)
\* the ring of the box [x0, x1] x [y0, y1], closed as in GeoJSON
Box(x0, y0, x1, y1) == << <<x0, y0>>, <<x1, y0>>, <<x1, y1>>, <<x0, y1>>, <<x0, y0>> >>

\* a box with a hole in it, and a second box
HoledBox == << Box(-123, 31, -115, 37), Box(-120, 32, -118, 34) >>
FarBox == << Box(10, 10, 12, 12) >>

RuleEvents ==
    LET Sev(id, sv) == [E0 EXCEPT !.id = <<id>>, !.provider = UNKNOWN, !.severity = sv]
        Quake(id, prov, mag, alt, depth_km, depth, geom) ==
            [E0 EXCEPT !.id = <<id>>, !.provider = prov, !.geometry = geom,
                       !.properties.mag = mag, !.properties.magnitude = alt,
                       !.properties.depth_km = depth_km, !.properties.depth = depth]
        Alert(id, event, title, gust, rain) ==
            [E0 EXCEPT !.id = <<id>>, !.provider = NWS, !.title = title,
                       !.properties.event = event, !.properties.wind_gust_mps = gust,
                       !.properties.rainfall_mm_hr = rain]
        At(id, geom) == [E0 EXCEPT !.id = <<id>>, !.provider = UNKNOWN, !.geometry = geom]
    IN  { Sev("a", Absent), Sev("b", Null), Sev("c", NonStr),
          Sev("d", <<"m", "i", "n", "o", "r">>), Sev("e", <<" ", "S", "E", "V", "E", "R", "E", " ">>),
          Sev("f", <<"E", "x", "t", "r", "e", "m", "e">>), Sev("g", <<"l", "i", "g", "h", "t">>),
          Quake("h", USGS, PNum(44), PAbsent, PNum(80), PAbsent, NoGeom),
          Quake("i", USGS, PNum(45), PAbsent, PNum(7000), PAbsent, NoGeom),
          Quake("j", USGS, PNum(46), PAbsent, PNum(7001), PAbsent, NoGeom),
          Quake("k", USGS, PAbsent, PAbsent, PAbsent, PAbsent, NoGeom),
          Quake("l", USGS, POther, PAbsent, PNone, PAbsent, Point(<<-120, 35, 8000>>)),
          Quake("m", USGS, PAbsent, PNum(30), PAbsent, PNum(9000), NoGeom),
          Quake("n", <<"U", "S", "G", "S">>, PNum(30), PAbsent, PAbsent, PAbsent, NoGeom),
          Quake("o", UNKNOWN, PNum(30), PAbsent, PNum(9000), PAbsent, NoGeom),
          Alert("p", <<"S", "t", "o", "r", "m">>, <<>>, PAbsent, PAbsent),
          Alert("q", <<"S", "t", "o", "r", "m">>, <<>>, PNum(199), PAbsent),
          Alert("r", <<"S", "t", "o", "r", "m">>, <<>>, PNum(200), PNum(49)),
          Alert("s", <<"S", "t", "o", "r", "m">>, <<>>, POther, PNum(50)),
          Alert("t", Absent, <<"F", "l", "o", "o", "d", " ", "w", "a", "t", "c", "h">>, PAbsent, PAbsent),
          Alert("u", <<" ", "s", "t", "o", "r", "m", " ", "s", "u", "r", "g", "e">>, <<>>, PAbsent, PAbsent),
          Alert("v", <<>>, Absent, PNone, PNone),
          Alert("E", <<>>, <<"S", "t", "o", "r", "m">>, PAbsent, PAbsent),
          At("w", Point(<<-121, 35>>)), At("x", Point(<<-110, 35>>)),
          At("y", Point(<<-119, 33>>)), At("z", Point(<<11, 11, 5>>)),
          At("A", Geom("LineString", <<>>, <<>>)), At("B", Point(<<-121>>)),
          At("C", Polygon(<< Box(-121, 35, -100, 50) >>)),
          At("D", MultiPolygon(<< << Box(-130, 35, -121, 36) >> >>)) }

\* the thresholds and the AOI of a configuration
RuleConfigs ==
    LET Cfg(min_sev, quake, weather, aoi) ==
            [thresholds |-> [min_severity |-> min_sev, earthquake |-> quake,
                             weather |-> weather],
             aoi |-> aoi]
        Weather(gust, rain, inc, exc) ==
            [on |-> TRUE, wind_gust_mps |-> gust, rainfall_mm_hr |-> rain,
             include_events |-> inc, exclude_events |-> exc]
        storm == <<"s", "t", "o", "r", "m">>
    IN  { Cfg(Null, NoEarthquake, NoWeather, NoGeom),
          Cfg(<<>>, NoEarthquake, Weather(PNone, PNone, <<>>, <<>>), NoGeom),
          Cfg(<<"S", "e", "v", "e", "r", "e">>, NoEarthquake, NoWeather, NoGeom),
          Cfg(<<" ", "m", "i", "n", "o", "r">>, NoEarthquake, NoWeather, NoGeom),
          Cfg(<<"h", "i", "g", "h">>, NoEarthquake, NoWeather, NoGeom),
          Cfg(Null, DefaultEarthquake, NoWeather, NoGeom),
          Cfg(Null, NoEarthquake, Weather(PNum(200), PNum(50), <<>>, <<>>), NoGeom),
          Cfg(Null, NoEarthquake, Weather(PNum(200), PNone, <<storm>>, <<>>), NoGeom),
          Cfg(Null, NoEarthquake,
              Weather(PNone, PNone, <<<<"F", "L", "O", "O", "D">>, storm>>, <<<<"S", "u", "r", "g", "e">>>>), NoGeom),
          Cfg(Null, NoEarthquake, Weather(PNone, PNone, << <<>> >>, <<>>), NoGeom),
          Cfg(Null, NoEarthquake, Weather(PNone, PNone, <<>>, << <<>>, <<" ", "s", "t", "o", "r", "m">> >>), NoGeom),
          Cfg(Null, NoEarthquake, NoWeather, Polygon(HoledBox)),
          Cfg(Null, NoEarthquake, NoWeather, MultiPolygon(<<FarBox, HoledBox>>)),
          Cfg(<<"m", "i", "n", "o", "r">>, DefaultEarthquake, Weather(PNum(200), PNone, <<storm>>, <<>>),
              Polygon(HoledBox)) }

RulesInit ==
    /\ procs = NoProcs
    /\ cli = NoCli
    /\ http = NoCall
    /\ fs = [n \in FileNames |-> Missing]
    /\ env_lru = MaxLru
    /\ store = NewState(env_lru)
    /\ ret = FALSE
    /\ op = NoOp
    /\ hist = EmptyMap
    /\ phase = "live"
    /\ feed = {}
    /\ \E c \in RuleConfigs :
          settings = [TestSettings EXCEPT !.thresholds = c.thresholds, !.aoi = c.aoi]
    /\ runs = 1
    /\ pc = "fetched"
    /\ events \in SeqsUpTo(RuleEvents, MaxBatch) \ {<<>>}
    /\ grouped = <<>>
    /\ gi = 0
    /\ groups_sent = 0
    /\ events_notified = 0
    /\ sent_events = <<>>
    /\ result = NoResult
    /\ run = NewRun(events, fs, {}, FALSE)
    /\ ever = {}

RulesSpec == RulesInit /\ [][Filter]_vars

(***************************************************************************)
(* The State API driven by a caller: StateSpec                             *)
(*   load (Init), then any calls of is_new and update_with, then save, a   *)
(*   fresh load of the same path, and is_new on the reloaded object.       *)
(***************************************************************************)

Timestamps == {TsNone, TsEmpty, TsText, T0F, T1Z, T1P, T2Z, T3M}

EvA == Ev(<<"a">>, USGS, T1Z)
EvB == Ev(<<"b">>, USGS, T2Z)
EvC == Ev(<<"c">>, USGS, TsNone)
EvA2 == Ev(<<" ", "a", " ">>, <<" ">> \o USGS, T1P)   \* EvA under another spelling
EvN == Ev(<<"a">>, NWS, T3M)                          \* the id of EvA, another provider
EvZ == Ev(<<" ">>, <<>>, T0F)                         \* no usable id, no provider name

StateEvents == {EvA, EvB, EvC, EvA2, EvN, EvZ}

\* the callers of the model: each draws its events from one of these sets
StateFeeds == { {EvA, EvB, EvC}, {EvA, EvA2, EvB}, {EvA, EvN, EvZ}, {EvB, EvA2, EvZ} }

Batches(S) == SeqsUpTo(S, MaxBatch)

LruLimits == 0 .. MaxLru

\* ghost: the ids of a batch moved to the front of the provider's history
RECURSIVE hist_after(_, _)
hist_after(h, evs) ==
    IF evs = <<>> THEN h
    ELSE LET p == provider_of(Head(evs))
             i == eid_of(Head(evs))
             old == IF p \in DOMAIN h THEN h[p] ELSE <<>>
             new == IF i = <<>> THEN old
                    ELSE <<i>> \o SelectSeq(old, LAMBDA x : x # i)
         IN  hist_after([q \in DOMAIN h \cup {p} |-> IF q = p THEN new ELSE h[q]],
                        Tail(evs))

StateInit ==
    /\ procs = NoProcs
    /\ cli = NoCli
    /\ http = NoCall
    /\ fs = [n \in FileNames |-> Missing]
    /\ env_lru \in LruLimits
    /\ store = load(fs, env_lru).st
    /\ ret = FALSE
    /\ op = NoOp
    /\ hist = EmptyMap
    /\ phase = "live"
    /\ feed \in StateFeeds
    /\ PipeIdle(DefaultSettings, fs)

SIsNew(e) ==
    /\ phase \in {"live", "reloaded"}
    /\ store' = is_new(store, e).st
    /\ ret' = is_new(store, e).ret
    /\ op' = [op EXCEPT !.name = "is_new", !.event = e]
    /\ UNCHANGED <<fs, env_lru, hist, phase, feed, pipeVars, procs, cli, http>>

SUpdateWith(batch) ==
    /\ phase = "live"
    /\ store' = update_with(store, batch)
    /\ hist' = hist_after(hist, batch)
    /\ op' = [name |-> "update_with", batch |-> batch, event |-> E0]
    /\ UNCHANGED <<fs, env_lru, ret, phase, feed, pipeVars, procs, cli, http>>

SSave ==
    /\ phase = "live"
    /\ fs' = save(fs, store)
    /\ op' = [op EXCEPT !.name = "save", !.event = E0]
    /\ phase' = "saved"
    /\ UNCHANGED <<env_lru, store, ret, hist, feed, pipeVars, procs, cli, http>>

SLoad ==
    /\ phase = "saved"
    /\ store' = load(fs, env_lru).st
    /\ fs' = load(fs, env_lru).files
    /\ op' = [op EXCEPT !.name = "load", !.event = E0]
    /\ phase' = "reloaded"
    /\ UNCHANGED <<env_lru, ret, hist, feed, pipeVars, procs, cli, http>>

StateNext ==
    \/ \E e \in feed : SIsNew(e)
    \/ \E b \in Batches(feed) : SUpdateWith(b)
    \/ SSave
    \/ SLoad

StateSpec == StateInit /\ [][StateNext]_vars

(***************************************************************************)
(* The State API on a file written by hand or under another limit:         *)
(* LoadedSpec                                                              *)
(*   load (Init) keeps the ids of a well-formed file as they are, a list   *)
(*   longer than lru_limit or with an id twice included; then the calls    *)
(*   of StateSpec.                                                         *)
(***************************************************************************)
\* well-formed state files: lru_limit absent (the environment decides) or 2
LoadedFiles ==
    LET File(ids, has, lim) ==
            JsonFile([NoData EXCEPT !.has_lru = has, !.lru_limit = lim,
                                    !.providers = (USGS :> [ids |-> ids, last_updated |-> T1Z])])
        a == <<"a">>
        b == <<"b">>
        c == <<"c">>
    IN  { File(<<a, b, c>>, TRUE, 2),
          File(<<a, b, c, b>>, FALSE, 0),
          File(<<a, a>>, FALSE, 0),
          File(<<b, a, a>>, FALSE, 0) }

LoadedInit ==
    /\ procs = NoProcs
    /\ cli = NoCli
    /\ http = NoCall
    /\ \E f \in LoadedFiles : fs = [n \in FileNames |-> IF n = STATE_FILE THEN f ELSE Missing]
    /\ env_lru \in LruLimits
    /\ store = load(fs, env_lru).st
    /\ ret = FALSE
    /\ op = NoOp
    /\ hist = EmptyMap
    /\ phase = "live"
    /\ feed \in StateFeeds
    /\ PipeIdle(DefaultSettings, fs)

LoadedSpec == LoadedInit /\ [][StateNext]_vars

(***************************************************************************)
(* Processes sharing one state path: PersistSpec                           *)
(*   each process loads, commits one event, and saves in the three steps   *)
(*   of save(); it may crash inside save() and start again; the            *)
(*   environment variable may change between any two steps.                *)
(***************************************************************************)
\* State.load(path)
PLoad(p) ==
    /\ procs[p].pc \in {"idle", "done", "crashed", "failed"}
    /\ procs[p].round < MaxLoads
    /\ LET l == load(fs, env_lru)
           others == DOMAIN procs \ {p}
           met == {q \in others : procs[q].pc \in {"loaded", "updated"}}
       IN  /\ fs' = l.files
           /\ procs' = [q \in DOMAIN procs |->
                          IF q = p
                          THEN [pc |-> "loaded", st |-> l.st, fd |-> "", overwritten |-> FALSE,
                                found |-> fs[STATE_FILE], prev |-> l.files[STATE_FILE],
                                solo |-> \A r \in others :
                                           procs[r].pc \in {"idle", "done", "crashed", "failed"},
                                together |-> met # {},
                                round |-> procs[p].round + 1]
                          ELSE [procs[q] EXCEPT !.solo = FALSE,
                                                !.together = @ \/ q \in met,
                                                !.round = procs[p].round + 1]]
    /\ UNCHANGED <<env_lru, stateVars, pipeVars, cli, http>>

\* state.update_with([e])
PUpdateWith(p, e) ==
    /\ procs[p].pc = "loaded"
    /\ procs' = [procs EXCEPT ![p].pc = "updated", ![p].st = update_with(procs[p].st, <<e>>)]
    /\ UNCHANGED <<fs, env_lru, stateVars, pipeVars, cli, http>>

\* save(): write_text opens state.json.tmp
PSaveOpen(p) ==
    /\ procs[p].pc = "updated"
    /\ fs' = save_open(fs)
    /\ procs' = [procs EXCEPT ![p].pc = "writing", ![p].fd = TMP_FILE,
                              ![p].prev = fs[STATE_FILE]]
    /\ UNCHANGED <<env_lru, stateVars, pipeVars, cli, http>>

\* save(): write_text writes the JSON text from offset 0 and closes the file.  Text
\* that another process wrote into the same file meanwhile is overwritten only as
\* far as the new text reaches
PSaveWrite(p) ==
    /\ procs[p].pc = "writing"
    /\ \E mixed \in (IF procs[p].overwritten THEN BOOLEAN ELSE {FALSE}) :
          fs' = IF mixed /\ procs[p].fd \in DOMAIN fs
                THEN [fs EXCEPT ![procs[p].fd] = Truncated]
                ELSE save_write(fs, procs[p].fd, procs[p].st)
    /\ procs' = [q \in DOMAIN procs |->
                   IF q = p THEN [procs[p] EXCEPT !.pc = "written", !.fd = ""]
                   ELSE IF procs[q].pc = "writing" /\ procs[q].fd = procs[p].fd
                   THEN [procs[q] EXCEPT !.overwritten = TRUE]
                   ELSE procs[q]]
    /\ UNCHANGED <<env_lru, stateVars, pipeVars, cli, http>>

\* save(): tmp.replace(self.path); FileNotFoundError when the temporary file is gone.
\* A file that is open keeps its handle under the new name, and loses its name when
\* it is replaced
PSaveReplace(p) ==
    /\ procs[p].pc = "written"
    /\ IF fs[TMP_FILE].kind = "missing"
       THEN /\ procs' = [procs EXCEPT ![p].pc = "failed"]
            /\ UNCHANGED fs
       ELSE /\ fs' = save_replace(fs)
            /\ procs' = [q \in DOMAIN procs |->
                           IF q = p THEN [procs[p] EXCEPT !.pc = "done"]
                           ELSE IF procs[q].fd = TMP_FILE
                           THEN [procs[q] EXCEPT !.fd = STATE_FILE]
                           ELSE IF procs[q].fd = STATE_FILE
                           THEN [procs[q] EXCEPT !.fd = "unlinked"]
                           ELSE procs[q]]
    /\ UNCHANGED <<env_lru, stateVars, pipeVars, cli, http>>

\* the process dies inside save(): before or in the middle of the write, or between
\* the write and the replace
PCrash(p) ==
    /\ procs[p].pc \in {"writing", "written"}
    /\ \E part \in (IF procs[p].pc = "writing" /\ procs[p].overwritten /\ procs[p].fd \in DOMAIN fs
                     THEN BOOLEAN ELSE {FALSE}) :
          fs' = IF part THEN [fs EXCEPT ![procs[p].fd] = Truncated] ELSE fs
    /\ procs' = [q \in DOMAIN procs |->
                   IF q = p THEN [procs[p] EXCEPT !.pc = "crashed", !.fd = ""]
                   ELSE IF procs[p].pc = "writing" /\ procs[q].pc = "writing"
                           /\ procs[q].fd = procs[p].fd
                   THEN [procs[q] EXCEPT !.overwritten = TRUE]
                   ELSE procs[q]]
    /\ UNCHANGED <<env_lru, stateVars, pipeVars, cli, http>>

\* DISASTER_ALERTS_STATE_LRU is changed between two runs
PSetEnv(n) ==
    /\ n # env_lru
    /\ \A q \in DOMAIN procs : procs[q].pc \in {"idle", "done", "crashed", "failed"}
    /\ env_lru' = n
    /\ UNCHANGED <<fs, stateVars, pipeVars, procs, cli, http>>

PersistInit ==
    /\ procs = NoProcs
    /\ cli = NoCli
    /\ http = NoCall
    /\ \E f \in {Missing, Truncated, Corrupt, LegacyFile,
                  JsonFile([LegacyFile.data EXCEPT !.has_lru = TRUE, !.lru_limit = 2])},
          b \in {Missing, [kind |-> "dir", data |-> NoData]} :
          /\ b.kind = "dir" => f = Corrupt
          /\ fs = [n \in FileNames |-> IF n = STATE_FILE THEN f
                                       ELSE IF n = BAK_FILE THEN b ELSE Missing]
    /\ env_lru \in {1, MaxLru}
    /\ store = NewState(env_lru)
    /\ ret = FALSE
    /\ op = NoOp
    /\ hist = EmptyMap
    /\ phase = "live"
    /\ feed = {EvA, EvB}
    /\ PipeIdle(DefaultSettings, fs)

PersistNext ==
    \/ \E p \in DOMAIN procs : PLoad(p)
    \/ \E p \in DOMAIN procs, e \in feed : PUpdateWith(p, e)
    \/ \E p \in DOMAIN procs : PSaveOpen(p)
    \/ \E p \in DOMAIN procs : PSaveWrite(p)
    \/ \E p \in DOMAIN procs : PSaveReplace(p)
    \/ \E p \in DOMAIN procs : PCrash(p)
    \/ \E n \in {1, MaxLru} : PSetEnv(n)

PersistSpec == PersistInit /\ [][PersistNext]_vars

(***************************************************************************)
(* Claims about the store                                                  *)
(***************************************************************************)
\* the provider's record in a State, an empty one when the State has none
ProvRec(st, p) == IF p \in DOMAIN st.providers THEN st.providers[p] ELSE _ProviderState

HasUsableId(e) == eid_of(e) # <<>>

\* C3 as stated: after update_with([e]), save() and a fresh load, an event e
\* with a usable id is not new (whatever the store's lru_limit)
C3_RoundTripAnyLimit ==
    (phase = "reloaded" /\ Len(op.batch) = 1 /\ HasUsableId(op.batch[1]))
        => ~is_new(store, op.batch[1]).ret

\* C3 (amended): for a store whose lru_limit is at least 1, after
\* update_with([e]), save() and a fresh State.load of the same path, an event e
\* with a usable id is not new, and the reloaded State has every provider of
\* the saved one with the same ids and the same watermark
C3_RoundTrip ==
    /\ [](  (phase = "reloaded" /\ store.lru_limit >= 1
              /\ Len(op.batch) = 1 /\ HasUsableId(op.batch[1]))
           => ~is_new(store, op.batch[1]).ret)
    /\ [][(phase = "saved" /\ phase' = "reloaded")
            => /\ store'.providers = store.providers
               /\ store'.lru_limit = store.lru_limit]_vars

C3_Witness ==
    /\ phase = "reloaded"
    /\ op.name = "is_new"
    /\ op.batch = <<op.event>>
    /\ HasUsableId(op.event)
    /\ store.lru_limit >= 1
    /\ Truthy(ProvRec(store, provider_of(op.event)).last_updated)
    /\ ret = FALSE

\* C5: is_new(event) is true iff the event has no usable id or its id is not in
\* the ids list of its own provider; the value returned by a call agrees
C5_IsNewIffAbsent ==
    /\ \A e \in StateEvents :
          is_new(store, e).ret
            <=> (\/ ~HasUsableId(e)
                 \/ ~InList(eid_of(e), ProvRec(store, provider_of(e)).ids))
    /\ op.name = "is_new"
          => (ret <=> (\/ ~HasUsableId(op.event)
                       \/ ~InList(eid_of(op.event),
                                  ProvRec(store, provider_of(op.event)).ids)))

\* an event with no usable id was committed and is still new, while an id held
\* by usgs is new for nws
C5_Witness ==
    /\ op.name = "is_new"
    /\ ~HasUsableId(op.event)
    /\ InList(op.event, op.batch)
    /\ ret = TRUE
    /\ InList(<<"a">>, ProvRec(store, USGS).ids)
    /\ ~InList(<<"a">>, ProvRec(store, NWS).ids)
    /\ is_new(store, Ev(<<"a">>, NWS, T3M)).ret

\* C6: a call of is_new leaves the whole State (providers mapping, ids,
\* watermarks, lru_limit) as it was
C6_IsNewPure ==
    [][op'.name = "is_new" => to_dict(store') = to_dict(store)]_vars

\* C7: once more than lru_limit distinct ids were committed for a provider, its
\* list holds exactly the lru_limit most recently committed ones, most recent first
C7_LruBound ==
    \A p \in DOMAIN hist :
        Len(hist[p]) > store.lru_limit
            => /\ Len(ProvRec(store, p).ids) = store.lru_limit
               /\ ProvRec(store, p).ids = SubSeq(hist[p], 1, store.lru_limit)

C7_Witness ==
    /\ op.name = "update_with"
    /\ store.lru_limit = 2
    /\ USGS \in DOMAIN hist
    /\ Len(hist[USGS]) = 3
    /\ Len(ProvRec(store, USGS).ids) = 2

NoDuplicates(l) == \A i, j \in DOMAIN l : l[i] = l[j] => i = j

\* C8: with lru_limit >= 1, every ids list has no id twice and at most
\* lru_limit entries, and the id committed last for a provider is its first entry
C8_IdsInvariant ==
    store.lru_limit >= 1 =>
        \A p \in DOMAIN store.providers :
            /\ NoDuplicates(store.providers[p].ids)
            /\ Len(store.providers[p].ids) <= store.lru_limit
            /\ (p \in DOMAIN hist /\ hist[p] # <<>>)
                  => /\ store.providers[p].ids # <<>>
                     /\ store.providers[p].ids[1] = hist[p][1]

\* a batch that commits one id twice (under two spellings) to a list that
\* already holds another id
C8_Witness ==
    /\ op.name = "update_with"
    /\ store.lru_limit = 2
    /\ Len(op.batch) = 2
    /\ op.batch[1] # op.batch[2]
    /\ eid_of(op.batch[1]) = eid_of(op.batch[2])
    /\ HasUsableId(op.batch[1])
    /\ provider_of(op.batch[1]) = provider_of(op.batch[2])
    /\ Len(ProvRec(store, provider_of(op.batch[1])).ids) = 2

\* the order of the claim: parsed timestamps, None and unparseable values least
TsGreater(a, b) ==
    LET pa == _parse_iso8601(a)
        pb == _parse_iso8601(b)
    IN  pa # NoParse /\ (pb = NoParse \/ TupleGT(pa, pb))

UpdatedOf(batch, p) ==
    {updated_of(batch[i]) : i \in {j \in DOMAIN batch : provider_of(batch[j]) = p}}

\* C9: a batch never lowers a watermark; after it the watermark is the greatest
\* of the previous one and the updated values of the provider's events (it
\* changes only to a strictly greater value), and it is untouched for a
\* provider with no event in the batch
C9_WatermarkMonotone ==
    [][op'.name = "update_with" =>
        \A p \in DOMAIN store.providers \cup DOMAIN store'.providers :
            LET w == ProvRec(store, p).last_updated
                w2 == ProvRec(store', p).last_updated
                cand == UpdatedOf(op'.batch, p)
            IN  /\ ~TsGreater(w, w2)
                /\ w2 \in cand \cup {w}
                /\ \A c \in cand : ~TsGreater(c, w2)
                /\ w2 # w => TsGreater(w2, w)
                /\ cand = {} => (w2 = w /\ (p \in DOMAIN store.providers))
      ]_vars

\* a batch whose only usgs event is older than the watermark left it in place
C9_Witness ==
    /\ op.name = "update_with"
    /\ op.batch = <<Ev(<<"a">>, USGS, T1Z)>>
    /\ ProvRec(store, USGS).last_updated = T2Z

\* C10: the result of is_new does not depend on any watermark: replacing the
\* last_updated of any provider by any value leaves every answer the same
C10_WatermarkNeverGates ==
    \A e \in StateEvents : \A p \in DOMAIN store.providers : \A w \in Timestamps :
        is_new([store EXCEPT !.providers[p].last_updated = w], e).ret
            = is_new(store, e).ret

\* an event older than its provider's watermark was reported new
C10_Witness ==
    /\ op.name = "is_new"
    /\ ret = TRUE
    /\ HasUsableId(op.event)
    /\ TsGreater(ProvRec(store, provider_of(op.event)).last_updated, updated_of(op.event))

(***************************************************************************)
(* Claims about the pipeline                                               *)
(***************************************************************************)
\* the events of the groups a run sent, in the order of the sends
RECURSIVE SentOf(_)
SentOf(sends) ==
    IF sends = <<>> THEN <<>> ELSE Head(sends).evs \o SentOf(Tail(sends))

Elems(q) == {q[i] : i \in DOMAIN q}

Count(q, x) == Cardinality({i \in DOMAIN q : q[i] = x})

SameBag(a, b) == \A x \in Elems(a) \cup Elems(b) : Count(a, x) = Count(b, x)

PairOf(e) == <<provider_of(e), eid_of(e)>>

\* what the next run will find: is_new on the State loaded from the files
NewOnDisk(files, e) == is_new(load(files, env_lru).st, e).ret

\* the well-formed events of the feed of the current run
FetchedEvents == IF CollectRaises(run.fetched) THEN <<>> ELSE _collect_events(run.fetched)

RunEnded == pc = "done" /\ runs >= 1

\* the argument of update_with is the events of the groups sent
CommitsWhatWasSent ==
    result.kind = "return"
        => /\ run.committed = SentOf(run.sends)
           /\ run.updates = (IF run.sends = <<>> THEN 0 ELSE 1)

\* C1 as stated: at the end of a run update_with was given exactly the events
\* of the groups sent, and every event of a skipped group, like every event
\* that was only fetched, filtered or routed, is still new after the run when
\* it was new before it; those of the skipped groups are new
C1_OnlySentCommittedAnyFeed ==
    RunEnded =>
        /\ CommitsWhatWasSent
        /\ \A e \in Elems(FetchedEvents) \ Elems(SentOf(run.sends)) :
              NewOnDisk(run.fs0, e) => NewOnDisk(fs, e)
        /\ \A i \in DOMAIN run.skipped : \A e \in Elems(run.skipped[i].evs) :
              NewOnDisk(fs, e)

\* a sent event of the run carries the provider and id of e
TwinSent(e) == \E x \in Elems(SentOf(run.sends)) : PairOf(x) = PairOf(e)

\* C1 (amended): at the end of a run update_with was given exactly the events
\* of the groups sent; an event that was not sent, and whose provider and id
\* are not those of an event sent in the same run, is still new after the run
\* when it was new before it, and new when it was in a skipped group
C1_OnlySentCommitted ==
    RunEnded =>
        /\ CommitsWhatWasSent
        /\ \A e \in Elems(FetchedEvents) \ Elems(SentOf(run.sends)) :
              (~TwinSent(e) /\ NewOnDisk(run.fs0, e)) => NewOnDisk(fs, e)
        /\ \A i \in DOMAIN run.skipped : \A e \in Elems(run.skipped[i].evs) :
              ~TwinSent(e) => NewOnDisk(fs, e)

\* a run sent one group, skipped another for lack of recipients and committed:
\* the sent event is no longer new, the skipped one is
C1_Witness ==
    /\ RunEnded
    /\ result.kind = "return"
    /\ run.updates = 1
    /\ run.sends # <<>>
    /\ \E i \in DOMAIN run.skipped : \E e \in Elems(run.skipped[i].evs) :
          ~TwinSent(e) /\ HasUsableId(e) /\ NewOnDisk(fs, e)
    /\ \E e \in Elems(SentOf(run.sends)) : ~NewOnDisk(fs, e)

DispatchFailed == RunEnded /\ result.kind = "raise" /\ result.at = "dispatch"

\* the state file parses, or there is none: State.load leaves the files alone
Loadable(files) == files[STATE_FILE].kind \in {"missing", "json"}

\* the State a load of the files returns, as to_dict shows it
StateOnDisk(files) == to_dict(load(files, env_lru).st)

\* C2 as stated: when require_email or send raises during dispatch, the run
\* ends with the error, update_with and save are not executed, the state file
\* is identical to what it was before the run, and the events of the groups
\* already sent are still new
C2_NoCommitFileIdentical ==
    DispatchFailed
        => /\ run.updates = 0
           /\ run.saves = 0
           /\ fs[STATE_FILE] = run.fs0[STATE_FILE]
           /\ \A e \in Elems(SentOf(run.sends)) : NewOnDisk(fs, e)

\* C2 (amended): when require_email or send raises during dispatch, the run
\* ends with the error, update_with and save are not executed, the files are
\* those State.load left (the files the run started from, but for an
\* unparseable state file, which load renamed aside), a load returns the same
\* State as before the run, and the events of the groups already sent are
\* still new
C2_NoCommitOnFailure ==
    DispatchFailed
        => /\ run.updates = 0
           /\ run.saves = 0
           /\ fs = run.fs1
           /\ Loadable(run.fs0) => fs = run.fs0
           /\ StateOnDisk(fs) = StateOnDisk(run.fs0)
           /\ \A e \in Elems(SentOf(run.sends)) : NewOnDisk(fs, e)

\* a send failed after another group of the same run had been sent, in a run
\* that started from a state file written by an earlier run
C2_Witness ==
    /\ RunEnded
    /\ result = Raised("SendError", "dispatch")
    /\ run.sends # <<>>
    /\ fs[STATE_FILE] # Missing
    /\ \E e \in Elems(SentOf(run.sends)) : HasUsableId(e) /\ NewOnDisk(fs, e)

\* the fetched events that pass the filters and were not committed earlier
Expected ==
    SelectSeq(filter_events(FetchedEvents, settings.thresholds, settings.aoi),
              LAMBDA e : PairOf(e) \notin run.ever0)

\* C4: in a sequence of runs on one state file where every send succeeded and
\* every group had recipients, a run of a well-formed feed sends exactly the
\* fetched events that pass the filters and were not committed by an earlier
\* run, commits exactly those, and returns their number (0, with no message,
\* when there is none)
C4_SequentialRuns ==
    (RunEnded /\ ~run.troubled /\ settings.email_configured
       /\ ~CollectRaises(run.fetched))
        => /\ result = Returned(Len(Expected))
           /\ SameBag(SentOf(run.sends), Expected)
           /\ SameBag(run.committed, Expected)

\* the stages of a run, in the order of the claim
Stages == <<"fetch", "filter", "dedup", "route", "dispatch", "commit">>

IsPrefix(a, b) == Len(a) <= Len(b) /\ \A i \in DOMAIN a : a[i] = b[i]

Positions(q, x) == {i \in DOMAIN q : q[i] = x}

\* the stages are entered in order, every send comes after the load and before
\* update_with and save, which are called at most once, after the dispatch
TraceInOrder ==
    LET t == run.trace
    IN  /\ IsPrefix(SelectSeq(t, LAMBDA x : x \in Elems(Stages)), Stages)
        /\ Cardinality(Positions(t, "update_with")) <= 1
        /\ Cardinality(Positions(t, "save")) <= 1
        /\ \A i \in Positions(t, "send") :
              /\ \E j \in Positions(t, "dispatch") : j < i
              /\ \A j \in Positions(t, "update_with") \cup Positions(t, "save") : i < j
        /\ \A j \in Positions(t, "update_with") \cup Positions(t, "save") :
              \E i \in Positions(t, "commit") : i < j

\* a step that calls send
SendStep == Len(run'.trace) > Len(run.trace) /\ run'.trace[Len(run.trace) + 1] = "send"

\* C11: in a run the stages occur in the order fetch, filter, load and dedup
\* check, route, dispatch, commit; update_with and save are executed at most
\* once, after the last dispatch attempt; and when send is called the store
\* is still the one State.load returned and the files are those it left
C11_Ordering ==
    /\ []TraceInOrder
    /\ [][SendStep => (to_dict(store) = run.loaded /\ fs = run.fs1)]_vars

\* the run ended in one of the four early returns
EndedEarly ==
    /\ RunEnded
    /\ ~CollectRaises(run.fetched)
    /\ run.trace[Len(run.trace)] \in {"fetch", "filter", "dedup", "route"}

\* C12 as stated: a run that fetched nothing, or whose filter, dedup check or
\* routing left nothing, returns 0 without raising, without a send, without
\* update_with or save, and the state file is what it was before the run
C12_EarlyReturnFileUnchanged ==
    EndedEarly
        => /\ result = Returned(0)
           /\ run.sends = <<>>
           /\ run.updates = 0 /\ run.saves = 0
           /\ fs[STATE_FILE] = run.fs0[STATE_FILE]

\* C12 (amended): such a run returns 0 without raising, without a send and
\* without update_with or save; the files are those State.load left: the
\* files the run started from, but for an unparseable state file, which the
\* load of the dedup check renamed aside; a load returns the same State as
\* before the run
C12_EarlyReturn ==
    EndedEarly
        => /\ result = Returned(0)
           /\ run.sends = <<>>
           /\ Positions(run.trace, "send") = {}
           /\ run.updates = 0 /\ run.saves = 0
           /\ fs = run.fs1
           /\ Loadable(run.fs0) => fs = run.fs0
           /\ StateOnDisk(fs) = StateOnDisk(run.fs0)

\* a run on a state file written by an earlier run found nothing new
C12_Witness ==
    /\ RunEnded
    /\ runs >= 2
    /\ run.trace = <<"fetch", "filter", "map", "load", "dedup">>
    /\ result = Returned(0)
    /\ fs[STATE_FILE].kind = "json"
    /\ fs = run.fs0

(***************************************************************************)
(* Claims about routing                                                    *)
(***************************************************************************)
\* the routing step was taken: events is the input, grouped the result
Routed == run.trace # <<>> /\ run.trace[Len(run.trace)] = "route"

Cfg == settings.routing

\* force_group is set, not blank, and not "default" in any letter case
ForcingApplies ==
    /\ Cfg.force_group # Null
    /\ strip(Cfg.force_group) # <<>>
    /\ lower(strip(Cfg.force_group)) # DEFAULT

\* the event's own routing key, "default" when it has none
OwnKey(e) ==
    IF IsStr(e.routing_key) /\ strip(e.routing_key) # <<>> THEN strip(e.routing_key)
    ELSE DEFAULT

ResolvedKey(e) == IF ForcingApplies THEN strip(Cfg.force_group) ELSE OwnKey(e)

OneHop(k) == IF k \in DOMAIN Cfg.merge THEN Cfg.merge[k] ELSE k

GroupKeys == {grouped[i].key : i \in DOMAIN grouped}

\* the groups that list the event
GroupsOf(e) == {grouped[i].key : i \in {j \in DOMAIN grouped : e \in Elems(grouped[j].evs)}}

\* C17: when forcing applies, every event that is not dropped is in the one
\* group named force_group (stripped), whatever its own key and the merge
\* table; when force_group is absent, blank or "default" in any letter case,
\* an event is filed under its own non-empty routing_key, else "default" (then
\* merged)
C17_ForcePrecedence ==
    Routed =>
      IF ForcingApplies
      THEN /\ GroupKeys \subseteq {strip(Cfg.force_group)}
           /\ \A e \in Elems(events) :
                 GroupsOf(e) = IF strip(Cfg.force_group) \in Cfg.drop_groups THEN {}
                               ELSE {strip(Cfg.force_group)}
      ELSE \A e \in Elems(events) :
              OwnKey(e) \notin Cfg.drop_groups => GroupsOf(e) = {OneHop(OwnKey(e))}

\* forcing applied to events of several keys, with a merge entry for the forced
\* name, and all of them are in the forced group
C17_Witness ==
    /\ Routed
    /\ ForcingApplies
    /\ Cfg.force_group # strip(Cfg.force_group)
    /\ strip(Cfg.force_group) \in DOMAIN Cfg.merge
    /\ Cardinality({OwnKey(e) : e \in Elems(events)}) >= 2
    /\ \E e \in Elems(events) : OwnKey(e) \in Cfg.drop_groups
    /\ Len(grouped) = 1 /\ Len(grouped[1].evs) = Len(events)

\* C18: an event whose resolved key is in drop_groups is in no group, forced
\* or not; every other event is in a group, also when the merge maps its key
\* to a name that drop_groups lists
C18_DropBeforeMerge ==
    Routed =>
      \A e \in Elems(events) :
         IF ResolvedKey(e) \in Cfg.drop_groups THEN GroupsOf(e) = {}
         ELSE GroupsOf(e) # {} /\ (~ForcingApplies => OneHop(ResolvedKey(e)) \in GroupsOf(e))

\* an event of key a is kept in group b, which is dropped, while an event of
\* key b is in no group
C18_Witness ==
    /\ Routed
    /\ ~ForcingApplies
    /\ \E e \in Elems(events) :
          /\ OwnKey(e) \notin Cfg.drop_groups
          /\ OneHop(OwnKey(e)) \in Cfg.drop_groups
          /\ OneHop(OwnKey(e)) \in GroupsOf(e)
    /\ \E e \in Elems(events) : OwnKey(e) \in Cfg.drop_groups /\ GroupsOf(e) = {}

\* C19: when not forced, an event of key k that is not dropped is in group
\* merge[k] when k is a key of the merge table, else in group k, and in no
\* other group: the target is not remapped
C19_MergeOneHop ==
    (Routed /\ ~ForcingApplies) =>
      \A e \in Elems(events) :
         OwnKey(e) \notin Cfg.drop_groups =>
            GroupsOf(e) = {IF OwnKey(e) \in DOMAIN Cfg.merge THEN Cfg.merge[OwnKey(e)]
                           ELSE OwnKey(e)}

\* with merge = {a: b, b: c} an event of key a is in group b and one of key b
\* in group c
C19_Witness ==
    /\ Routed
    /\ ~ForcingApplies
    /\ Cfg.merge = (<<"a">> :> <<"b">>) @@ (<<"b">> :> <<"c">>)
    /\ \E e \in Elems(events) : OwnKey(e) = <<"a">> /\ GroupsOf(e) = {<<"b">>}
    /\ \E e \in Elems(events) : OwnKey(e) = <<"b">> /\ GroupsOf(e) = {<<"c">>}

\* the key an event is filed under
TargetKey(e) == IF ForcingApplies THEN ResolvedKey(e) ELSE OneHop(ResolvedKey(e))

\* C20: every group lists its events in the order of the input, no group is
\* empty, no key comes twice, and the result has no key when every event is
\* dropped
C20_OrderNoEmptyGroup ==
    Routed =>
      /\ \A i \in DOMAIN grouped :
            /\ grouped[i].evs # <<>>
            /\ grouped[i].evs =
                 SelectSeq(events, LAMBDA e : /\ ResolvedKey(e) \notin Cfg.drop_groups
                                              /\ TargetKey(e) = grouped[i].key)
      /\ \A i, j \in DOMAIN grouped : grouped[i].key = grouped[j].key => i = j
      /\ (\A e \in Elems(events) : ResolvedKey(e) \in Cfg.drop_groups) => grouped = <<>>

\* two events of one group stand apart in the input, around an event of
\* another group and a dropped one
C20_Witness ==
    /\ Routed
    /\ Len(events) >= 3
    /\ Len(grouped) >= 1
    /\ Len(grouped[1].evs) = 2
    /\ grouped[1].evs[1] = events[1]
    /\ grouped[1].evs[2] = events[3]
    /\ events[1] # events[3]
    /\ ResolvedKey(events[2]) \in Cfg.drop_groups


(***************************************************************************)
(* Claims about persistence                                                *)
(***************************************************************************)
\* the snapshot save() of process p is writing
NewSnapshot(p) == JsonFile(to_dict(procs[p].st))

\* what State.load would return if file f were at the state path
LoadOf(f) == to_dict(load([fs EXCEPT ![STATE_FILE] = f], env_lru).st)

\* process p loads again after a crash inside save(), no other process at work
ReloadAfterCrash(p) ==
    procs[p].pc = "crashed" /\ procs[p].solo /\ procs'[p].pc = "loaded"

\* C13: atomic persist.  While a process that works alone is inside save(), and
\* after it crashed at any step of it, the file at the state path is the complete
\* file that was there when save() began; once save() has returned it is the
\* complete new snapshot; it is never a cut-short file; and the load that follows
\* a crash returns the state of one of these two files.
C13_AtomicPersist ==
    /\ [](\A p \in DOMAIN procs : procs[p].solo =>
            /\ procs[p].pc \in {"writing", "written"} => fs[STATE_FILE] = procs[p].prev
            /\ procs[p].pc = "crashed" => fs[STATE_FILE] \in {procs[p].prev, NewSnapshot(p)}
            /\ procs[p].pc = "done" => fs[STATE_FILE] = NewSnapshot(p)
            /\ procs[p].pc \in {"writing", "written", "crashed", "done"}
                  => (fs[STATE_FILE] = Truncated => procs[p].found = Truncated))
    /\ [][\A p \in DOMAIN procs : ReloadAfterCrash(p) =>
            to_dict(procs'[p].st) \in {LoadOf(procs[p].prev), LoadOf(NewSnapshot(p))}]_vars

\* C13 witness: a process that works alone crashed in the middle of the write (the
\* temporary file is cut short) over an existing snapshot, and has loaded again
C13_Witness ==
    \E p \in DOMAIN procs :
        /\ procs[p].pc = "loaded" /\ procs[p].round = 2 /\ procs[p].solo
        /\ fs[TMP_FILE] = Truncated
        /\ procs[p].found.kind = "json"
        /\ \A q \in DOMAIN procs \ {p} : procs[q].pc = "idle"


\* process p calls State.load
LoadStep(p) ==
    procs[p].pc \in {"idle", "done", "crashed", "failed"} /\ procs'[p].pc = "loaded"

\* C14: State.load on a bad file.  For a missing file, an empty file, or a file that
\* is no state object, load returns a State without providers, for which every
\* event is new; the missing file is left missing, the other two are renamed to
\* the .bak name unless the rename fails; and when the process, working alone,
\* has then saved, the state path holds a JSON snapshot that loads back as the
\* State saved.
C14_LoadNeverFails ==
    /\ [][\A p \in DOMAIN procs : (LoadStep(p) /\ fs[STATE_FILE].kind # "json") =>
            /\ procs'[p].st = NewState(env_lru)
            /\ \A e \in feed : is_new(procs'[p].st, e).ret
            /\ fs' = IF fs[STATE_FILE].kind = "missing" \/ fs[BAK_FILE].kind = "dir"
                     THEN fs
                     ELSE [fs EXCEPT ![BAK_FILE] = fs[STATE_FILE], ![STATE_FILE] = Missing]]_vars
    /\ [](\A p \in DOMAIN procs :
            (procs[p].solo /\ procs[p].pc = "done" /\ procs[p].found.kind # "json") =>
                /\ fs[STATE_FILE].kind = "json"
                /\ LoadOf(fs[STATE_FILE]) = to_dict(procs[p].st))

\* C14 witness: a process met a file that is no state object, which is now under
\* the .bak name, and has saved a snapshot with the event it committed
C14_Witness ==
    \E p \in DOMAIN procs :
        /\ procs[p].solo /\ procs[p].pc = "done"
        /\ procs[p].found = Corrupt
        /\ fs[BAK_FILE] = Corrupt
        /\ fs[STATE_FILE].kind = "json"
        /\ DOMAIN procs[p].st.providers # {}


\* the file holds an lru_limit value
HoldsLimit(f) == f.kind = "json" /\ f.data.has_lru

\* C15: lru_limit on load.  A State loaded from a file that holds an lru_limit has
\* that value whatever the environment says; loaded from a file without the value,
\* from a missing file or from a bad file it has the value of the environment at
\* the time of the load.  The file a save() leaves holds the State's lru_limit, so
\* the process that loads its own snapshot again gets the same limit, whatever the
\* environment has become.
C15_LruResolution ==
    /\ [][\A p \in DOMAIN procs : LoadStep(p) =>
            procs'[p].st.lru_limit = IF HoldsLimit(fs[STATE_FILE])
                                     THEN fs[STATE_FILE].data.lru_limit
                                     ELSE env_lru]_vars
    /\ [](\A p \in DOMAIN procs : (procs[p].solo /\ procs[p].pc = "done") =>
            /\ HoldsLimit(fs[STATE_FILE])
            /\ fs[STATE_FILE].data.lru_limit = procs[p].st.lru_limit)
    /\ [][\A p \in DOMAIN procs : (LoadStep(p) /\ procs[p].solo /\ procs[p].pc = "done") =>
            procs'[p].st.lru_limit = procs[p].st.lru_limit]_vars

\* C15 witness: a first run took the limit from the environment and saved it, the
\* environment was changed, and the next load has the limit of the file
C15_Witness ==
    \E p \in DOMAIN procs :
        /\ procs[p].pc = "loaded" /\ procs[p].round = 2
        /\ HoldsLimit(procs[p].found)
        /\ procs[p].found.data.lru_limit \in {1, MaxLru}
        /\ procs[p].st.lru_limit = procs[p].found.data.lru_limit
        /\ env_lru # procs[p].st.lru_limit


\* processes p and q both loaded before either began to save
Concurrent(p, q) == p # q /\ procs[p].together /\ procs[q].together

\* C16 as stated: when two runs both load before either saves, the file after both
\* saves is the complete snapshot of one of the two, and no step of the two saves
\* puts a cut-short or mixed file at the state path.
C16_LastWriterWins ==
    /\ [](\A p, q \in DOMAIN procs :
            (Concurrent(p, q) /\ procs[p].pc = "done" /\ procs[q].pc = "done") =>
                fs[STATE_FILE] \in {NewSnapshot(p), NewSnapshot(q)})
    /\ [][(\E p, q \in DOMAIN procs : Concurrent(p, q)) =>
            (fs'[STATE_FILE] = Truncated => fs[STATE_FILE] = Truncated)]_vars


(***************************************************************************)
(* Claims about dispatch                                                   *)
(***************************************************************************)
\* the list configured for a key, empty when there is none
ConfiguredList(s, key) == IF key \in DOMAIN s.recipients THEN s.recipients[key] ELSE <<>>

\* the list the resolution rule names for a key
ResolvedList(s, key) ==
    IF ConfiguredList(s, key) # <<>> THEN ConfiguredList(s, key)
    ELSE IF key # DEFAULT /\ s.routing.fallback_to_default THEN ConfiguredList(s, DEFAULT)
    ELSE <<>>

\* the dispatch loop is at a group that has events
AtGroup == pc = "dispatch" /\ gi < Len(grouped) /\ grouped[gi + 1].evs # <<>>

\* C21: recipient resolution.  For the key of the group at hand, _recipients_for_key
\* returns the list configured for the key when it is not empty, else the "default"
\* list when the key is not "default" and fallback_to_default is on, else the empty
\* list; the loop passes over a group whose list is empty without sending and
\* without raising; and a run that returns has taken every group.
C21_RecipientResolution ==
    /\ [](AtGroup => _recipients_for_key(settings, grouped[gi + 1].key)
                        = ResolvedList(settings, grouped[gi + 1].key))
    /\ [][(AtGroup /\ ResolvedList(settings, grouped[gi + 1].key) = <<>>) =>
            (gi' = gi + 1 /\ pc' = pc /\ result' = result /\ run'.sends = run.sends)]_vars
    /\ [](result.kind = "return" => gi = Len(grouped))


\* a group that dispatch sends: it has events and its recipients are not empty
Sendable(g) == g.evs # <<>> /\ _recipients_for_key(settings, g.key) # <<>>

\* the events of the sends, in total
RECURSIVE SizeSum(_)
SizeSum(sends) == IF sends = <<>> THEN 0 ELSE Len(Head(sends).evs) + SizeSum(Tail(sends))

\* C22: one send per group.  No two sends of a run have the same group key; every
\* message was built from the events of the group of its key; at every moment
\* events_notified is the sum of the sizes of the groups sent and groups_sent their
\* number; and a run that returns (no send failed) has sent, in order, exactly the
\* groups that have events and recipients, and returns events_notified.
C22_OneSendPerGroup ==
    /\ \A i, j \in DOMAIN run.sends : run.sends[i].key = run.sends[j].key => i = j
    /\ \A i \in DOMAIN run.sends : \E j \in DOMAIN grouped :
          grouped[j].key = run.sends[i].key /\ grouped[j].evs = run.sends[i].evs
    /\ events_notified = SizeSum(run.sends)
    /\ groups_sent = Len(run.sends)
    /\ result.kind = "return" =>
          /\ result.value = events_notified
          /\ LET due == SelectSeq(grouped, Sendable)
             IN  /\ Len(run.sends) = Len(due)
                 /\ \A i \in DOMAIN due : /\ run.sends[i].key = due[i].key
                                           /\ run.sends[i].evs = due[i].evs

\* C22 witness: a run returned after two sends, three events in all, and a group
\* it passed over
C22_Witness ==
    /\ result.kind = "return"
    /\ Len(run.sends) = 2
    /\ events_notified = 3
    /\ run.skipped # <<>>


(***************************************************************************)
(* Claims about the filters                                                *)
(***************************************************************************)
\* the provider of an event as the filter reads it, without regard to case
ProviderIs(e, name) == lower(str(get(e.provider, <<>>))) = name

\* the three gates of the filter, provider by provider
GatesPassed(e) ==
    /\ _passes_global_severity(e, settings.thresholds)
    /\ ProviderIs(e, USGS) => _passes_earthquake_thresholds(e, settings.thresholds.earthquake)
    /\ ProviderIs(e, NWS) => _passes_weather_thresholds(e, settings.thresholds.weather)
    /\ _in_aoi(e, settings.aoi)

\* a is b with some of its items left out
RECURSIVE IsSubsequence(_, _)
IsSubsequence(a, b) ==
    IF a = <<>> THEN TRUE
    ELSE IF b = <<>> THEN FALSE
    ELSE IF Head(a) = Head(b) THEN IsSubsequence(Tail(a), Tail(b))
    ELSE IsSubsequence(a, Tail(b))

\* the filter stage has run
Filtered == pc # "fetched"

\* C23: filter_events.  The output is a subsequence of the input, in the input's
\* order, holding exactly the events that pass the global severity gate, the gate
\* of their provider (usgs: the earthquake thresholds; nws: the weather
\* thresholds; any other provider: none) and the AOI gate; and the filter stage
\* changes neither the store nor the files.
C23_FilterEvents ==
    /\ [](Filtered => /\ IsSubsequence(events, run.fetched)
                      /\ events = SelectSeq(run.fetched, GatesPassed))
    /\ [][store' = store /\ fs' = fs]_vars

\* C23 witness: with a severity threshold, earthquake and weather thresholds and
\* an AOI configured, the filter dropped the first of two events and kept the
\* second
C23_Witness ==
    /\ Filtered
    /\ Len(run.fetched) = 2
    /\ events = <<run.fetched[2]>>
    /\ run.fetched[1] # run.fetched[2]
    /\ settings.thresholds.min_severity # Null
    /\ settings.thresholds.earthquake.on /\ settings.thresholds.weather.on
    /\ settings.aoi # NoGeom


\* the rank of a severity name: none 0, minor 1, moderate 2, severe 3, extreme 4,
\* and 0 for everything else
RankOfName(k) ==
    CASE k = <<"m", "i", "n", "o", "r">> -> 1
      [] k = <<"m", "o", "d", "e", "r", "a", "t", "e">> -> 2
      [] k = <<"s", "e", "v", "e", "r", "e">> -> 3
      [] k = <<"e", "x", "t", "r", "e", "m", "e">> -> 4
      [] OTHER -> 0

\* the rank without regard to case
RankNoCase(s) == IF IsStr(s) THEN RankOfName(lower(s)) ELSE 0

\* the rank without regard to case and to blanks around the name
RankTrimmed(s) == IF IsStr(s) THEN RankOfName(lower(strip(s))) ELSE 0

MinSeverity == settings.thresholds.min_severity

SeverityOf(e) == get(e.severity, Null)

\* the event was given to the filter and is not in its output
Dropped(e) == Filtered /\ InList(e, run.fetched) /\ ~InList(e, events)

\* C24 as stated: with a minimum severity set, an event passes the gate exactly
\* when its rank, taken without regard to case, is at least the rank of the
\* threshold taken the same way; with none set every event passes.
C24_SeverityGateNoCase ==
    Filtered => \A i \in DOMAIN run.fetched :
        LET e == run.fetched[i]
            ok == MinSeverity \in {Null, <<>>}
                  \/ RankNoCase(SeverityOf(e)) >= RankNoCase(MinSeverity)
        IN  /\ _passes_global_severity(e, settings.thresholds) <=> ok
            /\ ~ok => ~InList(e, events)

\* C24 amended: the rank is taken without regard to case and to blanks around the
\* name, for the event and for the threshold; an event that does not pass the
\* gate is not in the output of the filter.
C24_SeverityGate ==
    Filtered => \A i \in DOMAIN run.fetched :
        LET e == run.fetched[i]
            ok == MinSeverity \in {Null, <<>>}
                  \/ RankTrimmed(SeverityOf(e)) >= RankTrimmed(MinSeverity)
        IN  /\ _passes_global_severity(e, settings.thresholds) <=> ok
            /\ ~ok => ~InList(e, events)

\* C24 witness: under the threshold " minor" the filter kept the event of
\* severity "minor" and dropped the one of severity "light"
C24_Witness ==
    /\ MinSeverity = <<" ", "m", "i", "n", "o", "r">>
    /\ \E i, j \in DOMAIN run.fetched :
          /\ SeverityOf(run.fetched[i]) = <<"m", "i", "n", "o", "r">> /\ events = <<run.fetched[i]>>
          /\ SeverityOf(run.fetched[j]) = <<"l", "i", "g", "h", "t">> /\ Dropped(run.fetched[j])


Quake == settings.thresholds.earthquake

\* the magnitude and the depth _as_earthquake_values finds in an event
MagnitudeOf(e) == _as_earthquake_values(e).magnitude
DepthOf(e) == _as_earthquake_values(e).depth_km

\* too weak or too deep for the thresholds
TooWeak(e) == MagnitudeOf(e).k = "num" /\ MagnitudeOf(e).v < Quake.min_magnitude
TooDeep(e) == DepthOf(e).k = "num" /\ DepthOf(e).v > Quake.max_depth_km

\* C25: earthquake gate.  With earthquake thresholds configured, a usgs event is
\* rejected by the gate, and so missing from the output of the filter, exactly
\* when its magnitude is a number below min_magnitude or its depth is a number
\* above max_depth_km; an event without a magnitude and without a depth passes,
\* and so does one whose magnitude and depth equal the thresholds.
C25_EarthquakeGate ==
    (Filtered /\ Quake.on) => \A i \in DOMAIN run.fetched :
        LET e == run.fetched[i]
        IN  ProviderIs(e, USGS) =>
              /\ _passes_earthquake_thresholds(e, Quake) <=> ~(TooWeak(e) \/ TooDeep(e))
              /\ (TooWeak(e) \/ TooDeep(e)) => ~InList(e, events)
              /\ (MagnitudeOf(e) = PNone /\ DepthOf(e) = PNone)
                    => _passes_earthquake_thresholds(e, Quake)
              /\ (MagnitudeOf(e) = PNum(Quake.min_magnitude)
                    /\ DepthOf(e) = PNum(Quake.max_depth_km))
                    => _passes_earthquake_thresholds(e, Quake)

\* C25 witness: with no other gate configured, the filter kept the usgs event
\* whose magnitude and depth equal the thresholds and dropped one whose
\* magnitude is lower, or depth greater, by a tenth
C25_Witness ==
    /\ Quake.on /\ MinSeverity = Null /\ settings.aoi = NoGeom
    /\ \E i, j \in DOMAIN run.fetched :
          /\ MagnitudeOf(run.fetched[i]) = PNum(Quake.min_magnitude)
          /\ DepthOf(run.fetched[i]) = PNum(Quake.max_depth_km)
          /\ events = <<run.fetched[i]>>
          /\ ProviderIs(run.fetched[j], USGS)
          /\ Dropped(run.fetched[j])
          /\ \/ MagnitudeOf(run.fetched[j]) = PNum(Quake.min_magnitude - 1)
             \/ DepthOf(run.fetched[j]) = PNum(Quake.max_depth_km + 1)


Weather == settings.thresholds.weather

\* the event carries a number under the key, and it is below the threshold set
BelowThreshold(pv, thr) == thr.k = "num" /\ pv.k = "num" /\ pv.v < thr.v
LowGust(e) == BelowThreshold(e.properties.wind_gust_mps, Weather.wind_gust_mps)
LowRain(e) == BelowThreshold(e.properties.rainfall_mm_hr, Weather.rainfall_mm_hr)

\* C26: weather numeric gate.  With weather thresholds configured, an nws
\* event is rejected by the numeric filters exactly when a gust threshold is
\* set and the event carries a numeric gust below it, or a rainfall threshold
\* is set and the event carries a numeric rainfall below it; a rejected event
\* is missing from the output of the filter, and an event with no gust and no
\* rainfall property passes whatever the thresholds are.
C26_WeatherNumericGate ==
    (Filtered /\ Weather.on) => \A i \in DOMAIN run.fetched :
        LET e == run.fetched[i]
        IN  ProviderIs(e, NWS) =>
              /\ ~_passes_weather_numeric(e, Weather) <=> (LowGust(e) \/ LowRain(e))
              /\ (LowGust(e) \/ LowRain(e)) => ~InList(e, events)
              /\ (e.properties.wind_gust_mps = PAbsent /\ e.properties.rainfall_mm_hr = PAbsent)
                    => /\ _passes_weather_numeric(e, Weather)
                       /\ _passes_weather_thresholds(e, Weather)
                            = _passes_weather_categorical(e, Weather)

\* C26 witness: under a gust threshold and no other gate, the filter kept an nws
\* event with no gust and no rainfall property and dropped one with a lower gust
C26_Witness ==
    /\ Weather.on /\ Weather.wind_gust_mps.k = "num"
    /\ Weather.include_events = <<>> /\ Weather.exclude_events = <<>>
    /\ \E i, j \in DOMAIN run.fetched :
          /\ ProviderIs(run.fetched[i], NWS)
          /\ run.fetched[i].properties.wind_gust_mps = PAbsent
          /\ run.fetched[i].properties.rainfall_mm_hr = PAbsent
          /\ events = <<run.fetched[i]>>
          /\ ProviderIs(run.fetched[j], NWS)
          /\ LowGust(run.fetched[j])
          /\ Dropped(run.fetched[j])


\* text contains, case-insensitively, at least one of the patterns
HasPattern(text, patterns) ==
    \E i \in DOMAIN patterns : Contains(lower(text), lower(patterns[i]))

\* rejected by an include list without a pattern in the text, or by an exclude
\* list with one
RejectedByLists(text, include, exclude) ==
    \/ include # <<>> /\ ~HasPattern(text, include)
    \/ exclude # <<>> /\ HasPattern(text, exclude)

\* properties.event when the key holds a string, else the title
TextAsWritten(e) ==
    IF IsStr(e.properties.event) THEN e.properties.event
    ELSE IF IsStr(get(e.title, Null)) THEN e.title
    ELSE <<>>

\* properties.event when it is not empty, else the title, without the
\* surrounding whitespace
TextTrimmed(e) ==
    strip(IF IsStr(e.properties.event) /\ e.properties.event # <<>> THEN e.properties.event
          ELSE IF IsStr(get(e.title, Null)) THEN e.title
          ELSE <<>>)

NonEmpty(patterns) == SelectSeq(patterns, LAMBDA pat : pat # <<>>)

\* C27 as stated: the text of an nws event is properties.event when present,
\* else the title, and the event is rejected by the categorical filters exactly
\* when include_events is non-empty and the text contains none of its patterns,
\* or exclude_events is non-empty and the text contains one of its patterns.
C27_CategoricalGateAsWritten ==
    (Filtered /\ Weather.on) => \A i \in DOMAIN run.fetched :
        LET e == run.fetched[i]
        IN  ProviderIs(e, NWS) =>
              (~_passes_weather_categorical(e, Weather)
                 <=> RejectedByLists(TextAsWritten(e), Weather.include_events,
                                     Weather.exclude_events))

\* C27: weather categorical gate.  The text of an nws event is properties.event
\* when it is not empty, else the title, without surrounding whitespace; the
\* event is rejected exactly when include_events is non-empty and the text
\* contains none of its non-empty patterns, or exclude_events is non-empty and
\* the text contains one of its non-empty patterns (case ignored, exclude wins
\* over include); a rejected event is missing from the output of the filter,
\* and with both lists empty no event is rejected.
C27_CategoricalGate ==
    (Filtered /\ Weather.on) => \A i \in DOMAIN run.fetched :
        LET e == run.fetched[i]
            rejected == \/ /\ Weather.include_events # <<>>
                            /\ ~HasPattern(TextTrimmed(e), NonEmpty(Weather.include_events))
                        \/ /\ Weather.exclude_events # <<>>
                            /\ HasPattern(TextTrimmed(e), NonEmpty(Weather.exclude_events))
        IN  ProviderIs(e, NWS) =>
              /\ ~_passes_weather_categorical(e, Weather) <=> rejected
              /\ rejected => ~InList(e, events)
              /\ (Weather.include_events = <<>> /\ Weather.exclude_events = <<>>)
                    => _passes_weather_categorical(e, Weather)

\* C27 witness: under an include list and an exclude list, the filter kept an
\* nws event whose title holds an include pattern in another case, and dropped
\* one whose text holds an include pattern and an exclude pattern
C27_Witness ==
    /\ Weather.on /\ Weather.include_events # <<>> /\ Weather.exclude_events # <<>>
    /\ \E i, j \in DOMAIN run.fetched :
          /\ ProviderIs(run.fetched[i], NWS)
          /\ run.fetched[i].properties.event = Absent
          /\ HasPattern(run.fetched[i].title, Weather.include_events)
          /\ ~\E k \in DOMAIN Weather.include_events :
                  Contains(run.fetched[i].title, Weather.include_events[k])
          /\ events = <<run.fetched[i]>>
          /\ ProviderIs(run.fetched[j], NWS)
          /\ HasPattern(TextTrimmed(run.fetched[j]), Weather.include_events)
          /\ HasPattern(TextTrimmed(run.fetched[j]), Weather.exclude_events)
          /\ Dropped(run.fetched[j])


(***************************************************************************)
(* Claims about the AOI                                                    *)
(***************************************************************************)
\* the other two gates let the event through
OtherGatesPassed(e) ==
    /\ _passes_global_severity(e, settings.thresholds)
    /\ _passes_thresholds(e, settings.thresholds)

\* a geometry of a type the filter derives a point from
Recognized(geom) == geom.type \in {"Point", "Polygon", "MultiPolygon"}

\* C28: AOI pass-through.  With no AOI configured every event passes the AOI
\* gate, and an event whose geometry is absent or of an unrecognized type
\* passes it whatever the AOI is; such an event is in the output of the filter
\* when the other gates let it through.
C28_AoiPassThrough ==
    Filtered => \A i \in DOMAIN run.fetched :
        LET e == run.fetched[i]
        IN  (settings.aoi = NoGeom \/ ~Recognized(e.geometry)) =>
              /\ _in_aoi(e, settings.aoi)
              /\ OtherGatesPassed(e) => InList(e, events)

\* C28 witness: under an AOI, the filter kept an event without a geometry and
\* one with a geometry of an unrecognized type, or one of them next to an event
\* it dropped
C28_Witness ==
    /\ Filtered /\ settings.aoi # NoGeom
    /\ \E i, j \in DOMAIN run.fetched :
          /\ i # j
          /\ ~Recognized(run.fetched[i].geometry)
          /\ InList(run.fetched[i], events)
          /\ \/ Dropped(run.fetched[j])
             \/ /\ run.fetched[i].geometry = NoGeom
                /\ run.fetched[j].geometry.type = "LineString"
                /\ InList(run.fetched[j], events)


\* The rings of the model are boxes with sides along the axes, so a point is
\* strictly inside a ring when it lies strictly between the least and the
\* greatest coordinate of the ring on both axes, and strictly outside when it
\* lies beyond one of them.
Coords(ring, axis) == {ring[i][axis] : i \in DOMAIN ring}
StrictlyInside(pt, ring) ==
    \A axis \in {1, 2} :
        /\ \E c \in Coords(ring, axis) : c < pt[axis]
        /\ \E c \in Coords(ring, axis) : c > pt[axis]
StrictlyOutside(pt, ring) ==
    \E axis \in {1, 2} :
        \/ \A c \in Coords(ring, axis) : c > pt[axis]
        \/ \A c \in Coords(ring, axis) : c < pt[axis]

\* inside the outer ring and inside no hole; outside the outer ring or inside a hole
InsidePolygon(pt, polygon) ==
    /\ StrictlyInside(pt, polygon[1])
    /\ \A h \in 2 .. Len(polygon) : StrictlyOutside(pt, polygon[h])
OutsidePolygon(pt, polygon) ==
    \/ StrictlyOutside(pt, polygon[1])
    \/ \E h \in 2 .. Len(polygon) : StrictlyInside(pt, polygon[h])

\* the representative point of an event, <<>> when it has none
PointOf(e) == _as_point_from_geometry(e.geometry)

\* C29: AOI containment.  Under a Polygon or MultiPolygon AOI, an event whose
\* representative point is inside the outer ring and inside no hole of one of
\* the polygons of the AOI passes the AOI gate, and is in the output of the
\* filter when the other gates let it through; an event whose point is, for
\* every polygon of the AOI, outside the outer ring or inside a hole fails the
\* gate and is missing from the output.
C29_AoiContainment ==
    (Filtered /\ settings.aoi # NoGeom) => \A i \in DOMAIN run.fetched :
        LET e == run.fetched[i]
            polygons == settings.aoi.polys
        IN  PointOf(e) # <<>> =>
              /\ (\E k \in DOMAIN polygons : InsidePolygon(PointOf(e), polygons[k]))
                    => /\ _in_aoi(e, settings.aoi)
                       /\ OtherGatesPassed(e) => InList(e, events)
              /\ (\A k \in DOMAIN polygons : OutsidePolygon(PointOf(e), polygons[k]))
                    => /\ ~_in_aoi(e, settings.aoi)
                       /\ ~InList(e, events)

\* C29 witness: under a MultiPolygon AOI, the filter kept an event whose point
\* is inside a polygon of the AOI other than the first and outside its hole,
\* and dropped an event whose point is inside the hole
C29_Witness ==
    /\ Filtered /\ settings.aoi.type = "MultiPolygon"
    /\ \E i, j \in DOMAIN run.fetched : \E k \in DOMAIN settings.aoi.polys :
          /\ k > 1 /\ Len(settings.aoi.polys[k]) > 1
          /\ PointOf(run.fetched[i]) # <<>>
          /\ InsidePolygon(PointOf(run.fetched[i]), settings.aoi.polys[k])
          /\ events = <<run.fetched[i]>>
          /\ PointOf(run.fetched[j]) # <<>>
          /\ StrictlyInside(PointOf(run.fetched[j]), settings.aoi.polys[k][2])
          /\ Dropped(run.fetched[j])


(***************************************************************************)
(* Claims about malformed events                                           *)
(***************************************************************************)
\* a dict without the key id or without the key provider
LacksKey(e) == e.isdict /\ (e.id = Absent \/ e.provider = Absent)

\* C30: malformed events are fatal.  When one of the fetched events is a dict
\* without the key id or the key provider, the run ends in a RuntimeError raised
\* by the fetch stage, whatever the other events are: no later stage is
\* entered, nothing is sent, and the state file is neither read nor written.
C30_MalformedIsFatal ==
    (\E i \in DOMAIN run.fetched : LacksKey(run.fetched[i])) =>
        /\ pc = "done"
        /\ result = Raised("RuntimeError", "fetch")
        /\ run.trace = <<"fetch">>
        /\ run.sends = <<>> /\ sent_events = <<>> /\ groups_sent = 0
        /\ run.loads = 0 /\ run.saves = 0 /\ run.updates = 0
        /\ fs = run.fs0

\* C30 witness: a run over a well-formed event followed by a dict without an
\* id ended in the RuntimeError, with a state file on disk
C30_Witness ==
    /\ RunEnded /\ result = Raised("RuntimeError", "fetch")
    /\ fs[STATE_FILE] # Missing
    /\ \E i, j \in DOMAIN run.fetched :
          /\ i < j
          /\ run.fetched[i].isdict /\ ~LacksKey(run.fetched[i])
          /\ LacksKey(run.fetched[j])


(***************************************************************************)
(* Claims about the map stage                                              *)
(***************************************************************************)
\* C31: the map stage never affects delivery or dedup.  Whatever happens while
\* the stage is evaluated, the run goes on to the dedup check with the events
\* the filter kept and with no result yet, whether the map is disabled,
\* generated or fails.
C31_MapStageHarmless ==
    [][pc = "filtered" => (pc' = "mapped" /\ events' = events /\ result' = result)]_vars


(***************************************************************************)
(* Claims about cli.main                                                   *)
(***************************************************************************)
\* the step in which main returns after pipeline.run, and the one in which it
\* returns without calling it
ExitStep == cli.pc = "running" /\ cli'.pc = "exited"
EarlyExitStep == cli.pc # "running" /\ cli'.pc = "exited"

\* C32: exit codes.  main returns 0 when the pipeline ran without exception, 1
\* for a configuration error, missing email credentials when a message has to
\* be sent included, and 2 for any other error of the run; an invocation that
\* does not call the pipeline returns 0, or 1 when the configuration does not load.
C32_ExitCodes ==
    [][/\ ExitStep =>
            cli'.code = IF result.kind # "raise" THEN 0
                        ELSE IF result = Raised("RuntimeError", "dispatch") THEN 1
                        ELSE 2
       /\ EarlyExitStep => cli'.code \in {0, 1}]_vars


\* an event whose geometry is a Polygon or a MultiPolygon with a first vertex
Shaped(e) ==
    /\ e.geometry.type \in {"Polygon", "MultiPolygon"}
    /\ e.geometry.polys # <<>> /\ e.geometry.polys[1] # <<>> /\ e.geometry.polys[1][1] # <<>>

\* the first vertex of the first ring of the first polygon, and the other
\* vertices of that ring
FirstVertex(e) == e.geometry.polys[1][1][1]
OtherVertices(e) == {e.geometry.polys[1][1][i] : i \in DOMAIN e.geometry.polys[1][1]} \ {FirstVertex(e)}

InsideAoi(pt) == \E k \in DOMAIN settings.aoi.polys : InsidePolygon(pt, settings.aoi.polys[k])
OutsideAoi(pt) == \A k \in DOMAIN settings.aoi.polys : OutsidePolygon(pt, settings.aoi.polys[k])

\* C33: representative point.  The point of a Point geometry is its own
\* (lon, lat); the point of a Polygon or MultiPolygon geometry is the first
\* vertex of the first ring of the first polygon, and the AOI gate tests that
\* vertex alone: the event is removed when the vertex is outside the AOI and
\* kept, the other gates permitting, when it is inside, wherever the other
\* vertices are.
C33_RepresentativePoint ==
    Filtered => \A i \in DOMAIN run.fetched :
        LET e == run.fetched[i]
        IN  /\ (e.geometry.type = "Point" /\ Len(e.geometry.point) >= 2)
                  => PointOf(e) = <<e.geometry.point[1], e.geometry.point[2]>>
            /\ Shaped(e) =>
                  /\ PointOf(e) = FirstVertex(e)
                  /\ settings.aoi # NoGeom =>
                        /\ _in_aoi(e, settings.aoi) = _aoi_contains(settings.aoi, FirstVertex(e))
                        /\ OutsideAoi(FirstVertex(e)) => ~InList(e, events)
                        /\ (InsideAoi(FirstVertex(e)) /\ OtherGatesPassed(e))
                              => InList(e, events)

\* C33 witness: under an AOI, the filter kept a polygon whose first vertex is
\* inside and whose other vertices are outside, and dropped one whose first
\* vertex is outside and which has a vertex inside
C33_Witness ==
    /\ Filtered /\ settings.aoi # NoGeom
    /\ \E i, j \in DOMAIN run.fetched :
          /\ Shaped(run.fetched[i])
          /\ InsideAoi(FirstVertex(run.fetched[i]))
          /\ \A v \in OtherVertices(run.fetched[i]) : OutsideAoi(v)
          /\ events = <<run.fetched[i]>>
          /\ Shaped(run.fetched[j])
          /\ OutsideAoi(FirstVertex(run.fetched[j]))
          /\ \E v \in OtherVertices(run.fetched[j]) : InsideAoi(v)
          /\ Dropped(run.fetched[j])


(***************************************************************************)
(* Claims about get_json                                                   *)
(***************************************************************************)
\* a response that is neither a 2xx nor a 304, or a request exception
Failed(resp) == resp.status # 304 /\ ~(200 <= resp.status /\ resp.status < 300)

\* what get_json owes its caller for the responses it got
AnswerFor(responses) ==
    LET last == responses[Len(responses)]
    IN  IF Failed(last) \/ last.status = 304 \/ last.body = "bad" THEN "{}" ELSE last.body

\* C34: get_json terminates.  A call makes at most retries + 1 requests and
\* sleeps once between two requests and at no other time; it returns at the
\* first response that is a 2xx or a 304, or after retries + 1 failures; it
\* returns the body of the 2xx response, and {} for a 304, for a body that is
\* not JSON and after the failures; and every call returns.
C34_GetJsonTerminates ==
    /\ [](/\ http.attempt <= http.retries + 1
          /\ http.sleeps = IF http.pc = "request" THEN http.attempt
                           ELSE IF http.pc = "idle" THEN 0
                           ELSE http.attempt - 1
          /\ Len(http.responses) = http.attempt
          /\ \A i \in 1 .. (http.attempt - 1) : Failed(http.responses[i])
          /\ http.pc = "sleeping" => Failed(http.responses[http.attempt])
          /\ http.pc = "returned" =>
                /\ http.ret = AnswerFor(http.responses)
                /\ Failed(http.responses[http.attempt]) => http.attempt = http.retries + 1)
    /\ (http.pc \in {"request", "sleeping"}) ~> (http.pc = "returned")

\* C34 witness: a call with retries = 2 returned {} after a request exception
\* and two bad statuses, having slept twice
C34_Witness ==
    /\ http.pc = "returned" /\ http.retries = 2
    /\ http.attempt = 3 /\ http.sleeps = 2
    /\ http.ret = "{}"
    /\ http.responses[1].status = 0
    /\ Failed(http.responses[3])


\* pipeline.run has been called by this invocation and main has not returned
InRun == cli.pc = "running" /\ runs > cli.runs0

\* C35: dry run.  A --dry-run invocation replaces email.send by a no-op and
\* nothing else: without credentials nothing is handed to the send; when main
\* returns, email.send is the real send again; after a dry run in which no
\* group was skipped, the fetched events that pass the filters and were not
\* committed before are in the persisted state; and the normal run after a dry
\* run sends none of the events the no-op send was handed.
C35_DryRunCommits ==
    /\ [][(ExitStep /\ cli.dry_run) =>
            /\ cli'.send = "real"
            /\ (~run.troubled /\ settings.email_configured) =>
                  \A e \in Elems(Expected) : HasUsableId(e) => ~NewOnDisk(fs, e)]_vars
    /\ [](/\ cli.send = "noop" => (cli.pc = "running" /\ cli.dry_run)
          /\ (InRun /\ cli.dry_run /\ ~settings.email_configured) => sent_events = <<>>
          /\ (InRun /\ ~cli.dry_run /\ cli.prev_dry) =>
                \A e \in Elems(sent_events), d \in Elems(cli.prev_sent) :
                    HasUsableId(d) => PairOf(e) # PairOf(d))


(***************************************************************************)
(* Claims about dedup across runs                                          *)
(***************************************************************************)
\* the ids list of a provider in a State shown as a dict
IdsIn(d, p) == IF p \in DOMAIN d.providers THEN d.providers[p].ids ELSE <<>>

\* the run has loaded its State
Loaded == run.loads >= 1

\* the id of the event is in the list of its provider in the State the run loaded
Seen(e) == HasUsableId(e) /\ InList(eid_of(e), IdsIn(run.loaded, provider_of(e)))

\* the ids of a provider among events
IdsOf(evs, p) == {eid_of(e) : e \in {x \in Elems(evs) : provider_of(x) = p /\ HasUsableId(x)}}

\* the step in which update_with and save are executed
CommitStep == run'.saves = run.saves + 1 /\ pc = "dispatch" /\ result'.kind = "return"

\* C36: no refresh in the pipeline.  A run hands to the send, and commits, only
\* events whose id is not in the list of the State it loaded, so an event whose
\* id is in the list is suppressed; a commit puts the ids of a provider's
\* events in front of its list and leaves the ids that were there in their
\* order, each moved back by the number of ids committed and evicted when that
\* takes it past lru_limit; an event whose id is not in the loaded list, evicted
\* ones included, passes the dedup check when it passes the filters, and is
\* sent and committed by a run that returns unless its group is skipped.
C36_NoRefresh ==
    /\ [](Loaded => \A e \in Elems(sent_events) \cup Elems(run.committed)
                            \cup Elems(SentOf(run.sends)) : ~Seen(e))
    /\ [](Loaded => \A e \in Elems(filter_events(FetchedEvents, settings.thresholds,
                                                  settings.aoi)) :
                        ~Seen(e) => InList(e, events))
    /\ []((RunEnded /\ Loaded /\ result.kind = "return") =>
            \A i \in DOMAIN grouped :
                ~InList(grouped[i], run.skipped) =>
                    \A e \in Elems(grouped[i].evs) :
                        InList(e, SentOf(run.sends)) /\ InList(e, run.committed))
    /\ [][CommitStep =>
            \A p \in DOMAIN store'.providers :
                LET old == IdsIn(run.loaded, p)
                    new == store'.providers[p].ids
                    fresh == Cardinality(IdsOf(sent_events, p))
                IN  fresh > 0 =>
                      /\ \A k \in 1 .. Len(new) :
                            k <= fresh => new[k] \in IdsOf(sent_events, p)
                      /\ \A k \in DOMAIN old :
                            IF k + fresh <= store'.lru_limit
                            THEN Len(new) >= k + fresh /\ new[k + fresh] = old[k]
                            ELSE ~InList(old[k], new)]_vars

\* C36 witness: a run committed again an event that an earlier run had
\* committed and whose id had since been evicted from a list of one id, next to
\* which it had suppressed nothing
C36_Witness ==
    /\ RunEnded /\ Loaded /\ result.kind = "return"
    /\ store.lru_limit = 1
    /\ \E e \in Elems(run.committed) :
          /\ HasUsableId(e)
          /\ PairOf(e) \in run.ever0
          /\ IdsIn(run.loaded, provider_of(e)) # <<>>
          /\ InList(e, SentOf(run.sends))


(***************************************************************************)
(* Claims about two events of one batch with the same provider and id      *)
(***************************************************************************)
\* the fetched events that pass the filters, in the order of the feed
PassedFilters == filter_events(FetchedEvents, settings.thresholds, settings.aoi)

\* an event of the batch whose provider and id another event of the batch
\* carries too, and whose id is not in the State the run loaded
IsTwin(e) ==
    /\ HasUsableId(e)
    /\ ~Seen(e)
    /\ \E i, j \in DOMAIN PassedFilters :
          /\ i # j
          /\ PassedFilters[i] = e
          /\ PairOf(PassedFilters[j]) = PairOf(e)

Twins == {e \in Elems(PassedFilters) : IsTwin(e)}

\* the run has executed _group_by_routing_key
Grouped == \E i \in DOMAIN run.trace : run.trace[i] = "route"

\* the twins pass _only_new as often as they are in the batch, are filed in
\* their group unless it is dropped, and count in the number returned unless
\* their group is skipped
TwinsGoThrough ==
    /\ Loaded => \A e \in Twins : Count(events, e) = Count(PassedFilters, e)
    /\ (Loaded /\ Grouped) =>
          \A e \in Twins :
             ResolvedKey(e) \notin Cfg.drop_groups =>
                /\ GroupsOf(e) = {TargetKey(e)}
                /\ \A i \in DOMAIN grouped :
                      grouped[i].key = TargetKey(e) =>
                          Count(grouped[i].evs, e) = Count(PassedFilters, e)
    /\ (RunEnded /\ Loaded /\ result.kind = "return") =>
          /\ result.value = Len(SentOf(run.sends))
          /\ \A e \in Twins : \A i \in DOMAIN grouped :
                (InList(e, grouped[i].evs) /\ ~InList(grouped[i], run.skipped)) =>
                    Count(SentOf(run.sends), e) = Count(PassedFilters, e)

\* how often the commit has left the id of the event in the list of its provider
StoredTimes(e) == Count(store'.providers[provider_of(e)].ids, eid_of(e))

\* C37 as stated: two events of one batch with the same provider and id, not in
\* the loaded State, both pass _only_new, are both in their groups and both
\* count in the number returned, and the commit leaves the id in the list of
\* its provider exactly once
C37_BatchTwinsStoredOnce ==
    /\ []TwinsGoThrough
    /\ [][CommitStep =>
            \A e \in Twins : InList(e, sent_events) => StoredTimes(e) = 1]_vars

\* C37: two events of one batch with the same provider and id, not in the
\* loaded State, both pass _only_new, are both in their groups and both count
\* in the number returned; the commit never leaves the id twice in the list of
\* its provider, leaves it once when lru_limit is at least the number of ids of
\* the provider in the batch, and leaves none when lru_limit is 0
C37_BatchTwins ==
    /\ []TwinsGoThrough
    /\ [][CommitStep =>
            \A e \in Twins :
               InList(e, sent_events) =>
                  /\ StoredTimes(e) <= 1
                  /\ store'.lru_limit = 0 => StoredTimes(e) = 0
                  /\ (/\ store'.lru_limit >= 1
                      /\ store'.lru_limit >= Cardinality(IdsOf(sent_events, provider_of(e))))
                        => StoredTimes(e) = 1]_vars

\* C37 witness: a run returned 2 for two events with one provider and id, sent
\* in two groups, and the list of the provider holds the id once
C37_Witness ==
    /\ RunEnded /\ Loaded /\ result = Returned(2)
    /\ Cardinality(Twins) = 2
    /\ Len(grouped) = 2
    /\ \A e \in Twins : InList(e, run.committed)
    /\ \E e \in Twins : Count(ProvRec(store, provider_of(e)).ids, eid_of(e)) = 1


(***************************************************************************)
(* Claims about the events routing keeps                                   *)
(***************************************************************************)
\* the positions of the groups that list the event
GroupsListing(e) == {i \in DOMAIN grouped : InList(e, grouped[i].evs)}

\* the input events whose resolved key is in drop_groups
DroppedEvents == SelectSeq(events, LAMBDA e : ResolvedKey(e) \in Cfg.drop_groups)

\* C38: routing loses and duplicates nothing.  An input event whose resolved
\* key is not in drop_groups is in exactly one group, as often as it is in the
\* input; a dropped event is in no group; every event of a group is an input
\* event; and the sizes of the groups add up to the number of input events
\* minus the number of dropped events.
C38_RoutingKeepsAll ==
    Routed =>
      /\ \A e \in Elems(events) :
            IF ResolvedKey(e) \in Cfg.drop_groups THEN GroupsListing(e) = {}
            ELSE /\ Cardinality(GroupsListing(e)) = 1
                 /\ \A i \in GroupsListing(e) :
                       Count(grouped[i].evs, e) = Count(events, e)
      /\ \A i \in DOMAIN grouped : Elems(grouped[i].evs) \subseteq Elems(events)
      /\ SizeSum(grouped) = Len(events) - Len(DroppedEvents)

\* C38 witness: of three events one is dropped and two with different keys of
\* their own are merged into one group
C38_Witness ==
    /\ Routed
    /\ Len(events) = 3
    /\ Len(DroppedEvents) = 1
    /\ Len(grouped) = 1
    /\ Len(grouped[1].evs) = 2
    /\ OwnKey(grouped[1].evs[1]) # OwnKey(grouped[1].evs[2])


(***************************************************************************)
(* Claims about a store loaded with a list that is too long or repeats     *)
(***************************************************************************)
\* the ids list of the provider in the state file
FileIds(p) ==
    LET d == fs[STATE_FILE].data.providers
    IN  IF p \in DOMAIN d THEN load_provider(d[p]).ids ELSE <<>>

\* the store was loaded from a well-formed file whose list for the provider is
\* longer than lru_limit or holds an id twice
Irregular(p) ==
    /\ phase = "live"
    /\ fs[STATE_FILE].kind = "json"
    /\ (Len(FileIds(p)) > store.lru_limit \/ ~NoDuplicates(FileIds(p)))

\* the events of the batch that commit an id for the provider
CommitsFor(batch, p) == SelectSeq(batch, LAMBDA e : provider_of(e) = p /\ HasUsableId(e))

\* C39: on a store loaded from a well-formed file whose ids list for a
\* provider is longer than lru_limit or holds an id twice, an update_with
\* batch with an event of that provider that has a non-empty id leaves the
\* list with at most lru_limit entries and with the id committed last at index
\* 0 (for lru_limit >= 1; with lru_limit 0 the list is left empty)
C39_BoundAfterLoad ==
    (op.name = "update_with" /\ store.lru_limit >= 1) =>
        \A p \in DOMAIN store.providers :
            (Irregular(p) /\ CommitsFor(op.batch, p) # <<>>) =>
                LET ids == store.providers[p].ids
                    q == CommitsFor(op.batch, p)
                IN  /\ Len(ids) <= store.lru_limit
                    /\ ids # <<>>
                    /\ ids[1] = eid_of(q[Len(q)])

====
